---- MODULE Spec2Model ----
(***************************************************************************)
(* A model of o2-simple-redis: the RESP frame codec (encode, decode,       *)
(* expect_length), the command layer and the connection driver.            *)
(*                                                                         *)
(* A byte is a one-character string, a buffer a sequence of bytes.         *)
(* A frame is a record tagged by its variant in field t.                   *)
(***************************************************************************)
EXTENDS Integers, Sequences, FiniteSets, TLC

VARIABLES
    src,      \* codec harness: the BytesMut buffer handed to the codec
    input,    \* codec harness: how src was filled (frame, prefix length, tail)
    elen,     \* codec harness: result of expect_length on the filled buffer
    dec,      \* codec harness: result of RespFrame::decode on the filled buffer
    arg,      \* parser harness: the frame handed to Command::try_from
    parsed,   \* parser harness: what Command::try_from returned
    map,      \* backend: key -> frame
    hmap,     \* backend: key -> (field -> frame)
    hist,     \* executor harness: the commands executed so far, with their replies
    wire,     \* connection: bytes the client wrote that the server has not read
    peer,     \* connection: "open", "closed" once the client shut down its side, "reset"
    nsent,    \* connection: number of frames the client wrote
    sent,     \* connection (history): the frames the client wrote, in order
    rbuf,     \* connection: the read buffer of Framed
    readable, \* connection: Framed's is_readable flag
    eof,      \* connection: Framed has read end-of-file
    pc,       \* connection: where stream_handler is
    cur,      \* connection: the frame framed.next() yielded
    resp,     \* connection: the response request_handler returned
    err,      \* connection: the error stream_handler returned
    out,      \* connection: the replies written to the socket, encoded, in order
    decoded,  \* connection (history): the frames framed.next() yielded, in order
    execd,    \* connection (history): each executed frame with the reply computed
    task,     \* shared backend: where each connection's request_handler is
    log       \* shared backend (history): what the connections executed, in order

codecVars == <<src, input, elen, dec>>
parseVars == <<arg, parsed>>
backendVars == <<map, hmap>>
execVars == <<hist>>
connVars == <<wire, peer, nsent, sent, rbuf, readable, eof, pc, cur, resp, err, out, decoded, execd>>
sharedVars == <<task, log>>
vars == <<codecVars, parseVars, backendVars, execVars, connVars, sharedVars>>

----------------------------------------------------------------------------
(* Bytes and buffers *)

CR == "\r"
LF == "\n"
CRLF == <<CR, LF>>
CRLF_LEN == Len(CRLF)

Take(s, n) == SubSeq(s, 1, n)
Drop(s, n) == SubSeq(s, n + 1, Len(s))
StartsWith(buf, p) == Len(buf) >= Len(p) /\ Take(buf, Len(p)) = p

Digit == <<"0", "1", "2", "3", "4", "5", "6", "7", "8", "9">>
IsDigit(c) == \E d \in 1..10 : Digit[d] = c
DigitVal(c) == (CHOOSE d \in 1..10 : Digit[d] = c) - 1

\* format!("{}", n) of a non-negative integer
RECURSIVE ToDec(_)
ToDec(n) == IF n < 10 THEN <<Digit[n + 1]>>
            ELSE ToDec(n \div 10) \o <<Digit[(n % 10) + 1]>>

RECURSIVE DecVal(_)
DecVal(s) == IF s = <<>> THEN 0
             ELSE DecVal(Take(s, Len(s) - 1)) * 10 + DigitVal(s[Len(s)])

AllDigits(s) == s # <<>> /\ \A i \in 1..Len(s) : IsDigit(s[i])

\* str::parse::<usize>: an optional '+', then one or more decimal digits
ParseUsize(s) ==
    LET body == IF s # <<>> /\ s[1] = "+" THEN Tail(s) ELSE s
    IN  IF AllDigits(body) THEN [ok |-> TRUE, n |-> DecVal(body)]
        ELSE [ok |-> FALSE, n |-> 0]

\* i64 at a reduced width: two's complement on IntBits bits
IntBits == 8
I64_MIN == 0 - 2 ^ (IntBits - 1)
I64_MAX == 2 ^ (IntBits - 1) - 1

\* str::parse::<i64>: an optional '+' or '-', then one or more decimal digits;
\* a value outside i64 is an error (PosOverflow, NegOverflow)
ParseI64(s) ==
    LET signed == s # <<>> /\ s[1] \in {"+", "-"}
        body == IF signed THEN Tail(s) ELSE s
        Ranged(n) == IF n >= I64_MIN /\ n <= I64_MAX THEN [ok |-> TRUE, n |-> n]
                     ELSE [ok |-> FALSE, n |-> 0]
    IN  IF AllDigits(body)
        THEN Ranged(IF signed /\ s[1] = "-" THEN 0 - DecVal(body) ELSE DecVal(body))
        ELSE [ok |-> FALSE, n |-> 0]

\* str::parse::<f64> on the decimal forms digits[.digits] with an optional sign;
\* the value is kept as its text without the redundant '+'
ParseF64(s) ==
    LET signed == s # <<>> /\ s[1] \in {"+", "-"}
        body == IF signed THEN Tail(s) ELSE s
        dots == {i \in 1..Len(body) : body[i] = "."}
        wellFormed == /\ body # <<>>
                      /\ \A i \in 1..Len(body) : IsDigit(body[i]) \/ body[i] = "."
                      /\ Cardinality(dots) <= 1
                      /\ \E i \in 1..Len(body) : IsDigit(body[i])
    IN  IF wellFormed
        THEN [ok |-> TRUE, d |-> IF signed /\ s[1] = "+" THEN body ELSE s]
        ELSE [ok |-> FALSE, d |-> <<>>]

----------------------------------------------------------------------------
(* Frames *)

SimpleString(s) == [t |-> "SimpleString", s |-> s]
SimpleError(s) == [t |-> "SimpleError", s |-> s]
Integer(n) == [t |-> "Integer", n |-> n]
BulkString(b) == [t |-> "BulkString", s |-> b]
RespNullBulkString == [t |-> "NullBulkString"]
RespArray(v) == [t |-> "Array", v |-> v]
RespNullArray == [t |-> "NullArray"]
RespNull == [t |-> "Null"]
Boolean(b) == [t |-> "Boolean", b |-> b]
Double(d) == [t |-> "Double", s |-> d]
RespMap(m) == [t |-> "Map", m |-> m]
RespSet(v) == [t |-> "Set", v |-> v]
NoFrame == [t |-> "None"]

----------------------------------------------------------------------------
(* Encoder *)

\* Display of an i64
I64ToString(n) == IF n < 0 THEN <<"-">> \o ToDec(0 - n) ELSE ToDec(n)

SimpleString_encode(f) == <<"+">> \o f.s \o CRLF
SimpleError_encode(f) == <<"-">> \o f.s \o CRLF
\* a faulty encoder that writes no sign for a number that is not negative
i64_encode_NoPlus(f) == <<":">> \o I64ToString(f.n) \o CRLF

i64_encode(f) ==
    LET sign == IF f.n < 0 THEN <<>> ELSE <<"+">>
    IN  <<":">> \o sign \o I64ToString(f.n) \o CRLF
BulkString_encode(f) == <<"$">> \o ToDec(Len(f.s)) \o CRLF \o f.s \o CRLF
RespNullBulkString_encode == <<"$", "-", "1">> \o CRLF
RespNullArray_encode == <<"*", "-", "1">> \o CRLF
RespNull_encode == <<"_">> \o CRLF
bool_encode(f) == <<"#", IF f.b THEN "t" ELSE "f">> \o CRLF
f64_encode(f) == <<",">> \o f.s \o CRLF

RECURSIVE encode(_), encode_frames(_), encode_entries(_)

\* for frame in self.0 { buf.extend_from_slice(&frame.encode()) }
encode_frames(v) ==
    IF v = <<>> THEN <<>> ELSE encode(Head(v)) \o encode_frames(Tail(v))

\* each entry: the key as a SimpleString, then the value
encode_entries(m) ==
    IF m = <<>> THEN <<>>
    ELSE SimpleString_encode(SimpleString(Head(m)[1])) \o encode(Head(m)[2])
         \o encode_entries(Tail(m))

RespArray_encode(f) == <<"*">> \o ToDec(Len(f.v)) \o CRLF \o encode_frames(f.v)
RespSet_encode(f) == <<"~">> \o ToDec(Len(f.v)) \o CRLF \o encode_frames(f.v)
RespMap_encode(f) == <<"%">> \o ToDec(Len(f.m)) \o CRLF \o encode_entries(f.m)

\* RespFrame::encode: the enum dispatch over the variants
encode(f) ==
    CASE f.t = "SimpleString" -> SimpleString_encode(f)
      [] f.t = "SimpleError" -> SimpleError_encode(f)
      [] f.t = "Integer" -> i64_encode(f)
      [] f.t = "BulkString" -> BulkString_encode(f)
      [] f.t = "NullBulkString" -> RespNullBulkString_encode
      [] f.t = "Array" -> RespArray_encode(f)
      [] f.t = "NullArray" -> RespNullArray_encode
      [] f.t = "Null" -> RespNull_encode
      [] f.t = "Boolean" -> bool_encode(f)
      [] f.t = "Double" -> f64_encode(f)
      [] f.t = "Map" -> RespMap_encode(f)
      [] f.t = "Set" -> RespSet_encode(f)

----------------------------------------------------------------------------
(* Decoder helpers *)

\* A decode result: k is "Ok" or the error; rest is the buffer as the call
\* leaves it (a &mut BytesMut is advanced in place, also on the error paths).
DecOk(f, rest) == [k |-> "Ok", f |-> f, rest |-> rest]
DecErr(e, rest) == [k |-> e, f |-> NoFrame, rest |-> rest]

\* An expect_length result
LenOk(n) == [k |-> "Ok", n |-> n]
LenErr(e) == [k |-> e, n |-> 0]

\* String::from_utf8_lossy: a byte that is not valid UTF-8 becomes U+FFFD
BadByte == "0xFF"
Replacement == "U+FFFD"
from_utf8_lossy(s) == [i \in 1..Len(s) |-> IF s[i] = BadByte THEN Replacement ELSE s[i]]

\* The first index i (0-based) with buf[i..i+2] = CRLF, or -1 for None.
\* nth is 1 at every call site.
find_crlf(buf, nth) ==
    LET hits == {i \in 0..(Len(buf) - 2) : buf[i + 1] = CR /\ buf[i + 2] = LF}
    IN  IF Cardinality(hits) < nth THEN -1
        ELSE CHOOSE i \in hits : Cardinality({j \in hits : j < i}) = nth - 1

\* a faulty probe that consumes the bytes it looked at when they do not match
extract_fixed_data_Consuming(buf, expect) ==
    IF Len(buf) < Len(expect) THEN [k |-> "NotComplete", rest |-> buf]
    ELSE IF ~StartsWith(buf, expect) THEN [k |-> "InvalidFrameType", rest |-> Drop(buf, Len(expect))]
    ELSE [k |-> "Ok", rest |-> Drop(buf, Len(expect))]

extract_fixed_data(buf, expect) ==
    IF Len(buf) < Len(expect) THEN [k |-> "NotComplete", rest |-> buf]
    ELSE IF ~StartsWith(buf, expect) THEN [k |-> "InvalidFrameType", rest |-> buf]
    ELSE [k |-> "Ok", rest |-> Drop(buf, Len(expect))]

extract_simple_frame_data(buf, prefix) ==
    LET Found(end) == IF end = -1 THEN [k |-> "NotComplete", end |-> 0]
                      ELSE [k |-> "Ok", end |-> end]
    IN  IF Len(buf) < 3 THEN [k |-> "NotComplete", end |-> 0]
        ELSE IF ~StartsWith(buf, prefix) THEN [k |-> "InvalidFrameType", end |-> 0]
        ELSE Found(find_crlf(buf, 1))

parse_length(buf, prefix) ==
    LET Parsed(end, p) == IF p.ok THEN [k |-> "Ok", end |-> end, len |-> p.n]
                          ELSE [k |-> "ParseIntError", end |-> 0, len |-> 0]
        Header(r) == IF r.k # "Ok" THEN [k |-> r.k, end |-> 0, len |-> 0]
                     ELSE Parsed(r.end, ParseUsize(from_utf8_lossy(SubSeq(buf, Len(prefix) + 1, r.end))))
    IN  Header(extract_simple_frame_data(buf, prefix))

----------------------------------------------------------------------------
(* expect_length *)

\* Ok(end + CRLF_LEN) of a line-terminated frame
LineLength(r) == IF r.k # "Ok" THEN LenErr(r.k) ELSE LenOk(r.end + CRLF_LEN)

SimpleString_expect_length(buf) == LineLength(extract_simple_frame_data(buf, <<"+">>))
SimpleError_expect_length(buf) == LineLength(extract_simple_frame_data(buf, <<"-">>))
i64_expect_length(buf) == LineLength(extract_simple_frame_data(buf, <<":">>))
f64_expect_length(buf) == LineLength(extract_simple_frame_data(buf, <<",">>))

BulkString_expect_length(buf) ==
    LET Header(p) == IF p.k # "Ok" THEN LenErr(p.k)
                     ELSE LenOk(p.end + CRLF_LEN + p.len + CRLF_LEN)
    IN  Header(parse_length(buf, <<"$">>))

RespNull_expect_length(buf) == LenOk(3)
bool_expect_length(buf) == LenOk(4)

RECURSIVE RespFrame_expect_length(_), calc_frames_length(_, _, _), calc_entries_length(_, _, _)

\* the "*" | "~" loop of calc_total_length; data = &data[len..] panics when
\* the child's reported length exceeds what is left of the slice
calc_frames_length(data, cnt, total) ==
    LET Child(r) == IF r.k # "Ok" THEN r
                    ELSE IF r.n > Len(data) THEN LenErr("Panic")
                    ELSE calc_frames_length(Drop(data, r.n), cnt - 1, total + r.n)
    IN  IF cnt = 0 THEN LenOk(total) ELSE Child(RespFrame_expect_length(data))

\* the "%" loop of calc_total_length: a SimpleString key, then a value
calc_entries_length(data, cnt, total) ==
    LET Value(data2, total2, rv) ==
            IF rv.k # "Ok" THEN rv
            ELSE IF rv.n > Len(data2) THEN LenErr("Panic")
            ELSE calc_entries_length(Drop(data2, rv.n), cnt - 1, total2 + rv.n)
        Key(rk) ==
            IF rk.k # "Ok" THEN rk
            ELSE IF rk.n > Len(data) THEN LenErr("Panic")
            ELSE Value(Drop(data, rk.n), total + rk.n,
                       RespFrame_expect_length(Drop(data, rk.n)))
    IN  IF cnt = 0 THEN LenOk(total) ELSE Key(SimpleString_expect_length(data))

calc_total_length(buf, len, end, prefix) ==
    CASE prefix \in {<<"*">>, <<"~">>} ->
             calc_frames_length(Drop(buf, end + CRLF_LEN), len, end + CRLF_LEN)
      [] prefix = <<"%">> ->
             calc_entries_length(Drop(buf, end + CRLF_LEN), len, end + CRLF_LEN)
      [] OTHER -> LenOk(len + CRLF_LEN)

\* parse_length, then calc_total_length: the body shared by the three containers
ContainerLength(buf, prefix) ==
    LET Header(p) == IF p.k # "Ok" THEN LenErr(p.k)
                     ELSE calc_total_length(buf, p.len, p.end, prefix)
    IN  Header(parse_length(buf, prefix))

RespArray_expect_length(buf) == ContainerLength(buf, <<"*">>)
RespMap_expect_length(buf) == ContainerLength(buf, <<"%">>)
RespSet_expect_length(buf) == ContainerLength(buf, <<"~">>)

RespFrame_expect_length(buf) ==
    IF buf = <<>> THEN LenErr("NotComplete")
    ELSE CASE buf[1] = "+" -> SimpleString_expect_length(buf)
           [] buf[1] = "-" -> SimpleError_expect_length(buf)
           [] buf[1] = ":" -> i64_expect_length(buf)
           [] buf[1] = "$" -> BulkString_expect_length(buf)
           [] buf[1] = "*" -> RespArray_expect_length(buf)
           [] buf[1] = "_" -> RespNull_expect_length(buf)
           [] buf[1] = "#" -> bool_expect_length(buf)
           [] buf[1] = "," -> f64_expect_length(buf)
           [] buf[1] = "%" -> RespMap_expect_length(buf)
           [] buf[1] = "~" -> RespSet_expect_length(buf)
           [] OTHER -> LenErr("NotComplete")

----------------------------------------------------------------------------
(* decode *)

\* buf.split_to(end + CRLF_LEN), and the text between the prefix and the CRLF
LineText(buf, end) == from_utf8_lossy(SubSeq(buf, 2, end))
AfterLine(buf, end) == Drop(buf, end + CRLF_LEN)

SimpleString_decode(buf) ==
    LET Line(r) == IF r.k # "Ok" THEN DecErr(r.k, buf)
                   ELSE DecOk(SimpleString(LineText(buf, r.end)), AfterLine(buf, r.end))
    IN  Line(extract_simple_frame_data(buf, <<"+">>))

SimpleError_decode(buf) ==
    LET Line(r) == IF r.k # "Ok" THEN DecErr(r.k, buf)
                   ELSE DecOk(SimpleError(LineText(buf, r.end)), AfterLine(buf, r.end))
    IN  Line(extract_simple_frame_data(buf, <<"-">>))

i64_decode(buf) ==
    LET Parsed(p, rest) == IF p.ok THEN DecOk(Integer(p.n), rest)
                           ELSE DecErr("ParseIntError", rest)
        Line(r) == IF r.k # "Ok" THEN DecErr(r.k, buf)
                   ELSE Parsed(ParseI64(LineText(buf, r.end)), AfterLine(buf, r.end))
    IN  Line(extract_simple_frame_data(buf, <<":">>))

f64_decode(buf) ==
    LET Parsed(p, rest) == IF p.ok THEN DecOk(Double(p.d), rest)
                           ELSE DecErr("ParseFloatError", rest)
        Line(r) == IF r.k # "Ok" THEN DecErr(r.k, buf)
                   ELSE Parsed(ParseF64(LineText(buf, r.end)), AfterLine(buf, r.end))
    IN  Line(extract_simple_frame_data(buf, <<",">>))

BulkString_decode(buf) ==
    LET Body(len, remained) ==
            IF Len(remained) < len + CRLF_LEN THEN DecErr("NotComplete", buf)
            ELSE DecOk(BulkString(Take(Take(remained, len + CRLF_LEN), len)),
                       Drop(remained, len + CRLF_LEN))
        Header(p) == IF p.k # "Ok" THEN DecErr(p.k, buf)
                     ELSE Body(p.len, Drop(buf, p.end + CRLF_LEN))
    IN  Header(parse_length(buf, <<"$">>))

\* extract_fixed_data(...)?; Ok(frame)
FixedFrame(r, frame) == IF r.k # "Ok" THEN DecErr(r.k, r.rest) ELSE DecOk(frame, r.rest)

RespNullBulkString_decode(buf) ==
    FixedFrame(extract_fixed_data(buf, <<"$", "-", "1", CR, LF>>), RespNullBulkString)

RespNullArray_decode(buf) ==
    FixedFrame(extract_fixed_data(buf, <<"*", "-", "1", CR, LF>>), RespNullArray)

RespNull_decode(buf) ==
    FixedFrame(extract_fixed_data(buf, <<"_", CR, LF>>), RespNull)

bool_decode(buf) ==
    LET False(rf) == IF rf.k = "Ok" THEN DecOk(Boolean(FALSE), rf.rest)
                     ELSE DecErr(rf.k, rf.rest)
        True(rt) == IF rt.k = "Ok" THEN DecOk(Boolean(TRUE), rt.rest)
                    ELSE IF rt.k = "NotComplete" THEN DecErr("NotComplete", rt.rest)
                    ELSE False(extract_fixed_data(buf, <<"#", "f", CR, LF>>))
    IN  True(extract_fixed_data(buf, <<"#", "t", CR, LF>>))

RECURSIVE RespFrame_decode(_), decode_frames(_, _, _), decode_entries(_, _, _)

\* for _ in 0..len { let frame = RespFrame::decode(buf)?; array.push(frame); }
decode_frames(buf, cnt, acc) ==
    LET Child(r) == IF r.k # "Ok" THEN [k |-> r.k, v |-> acc, rest |-> r.rest]
                    ELSE decode_frames(r.rest, cnt - 1, Append(acc, r.f))
    IN  IF cnt = 0 THEN [k |-> "Ok", v |-> acc, rest |-> buf]
        ELSE Child(RespFrame_decode(buf))

\* a faulty insert that puts the new entry in front of the others
RespMap_insert_Front(m, key, value) == <<<<key, value>>>> \o m

\* RespMap::insert of the decoded entry (an ordered sequence of pairs)
RespMap_insert(m, key, value) == Append(m, <<key, value>>)

\* for _ in 0..len { key = SimpleString::decode(buf)?; value = RespFrame::decode(buf)?; ... }
decode_entries(buf, cnt, acc) ==
    LET Value(key, rv) ==
            IF rv.k # "Ok" THEN [k |-> rv.k, v |-> acc, rest |-> rv.rest]
            ELSE decode_entries(rv.rest, cnt - 1, RespMap_insert(acc, key, rv.f))
        Key(rk) ==
            IF rk.k # "Ok" THEN [k |-> rk.k, v |-> acc, rest |-> rk.rest]
            ELSE Value(rk.f.s, RespFrame_decode(rk.rest))
    IN  IF cnt = 0 THEN [k |-> "Ok", v |-> acc, rest |-> buf]
        ELSE Key(SimpleString_decode(buf))

RespArray_decode(buf) ==
    LET Children(r) == IF r.k # "Ok" THEN DecErr(r.k, r.rest)
                       ELSE DecOk(RespArray(r.v), r.rest)
        Total(p, total) ==
            IF total.k # "Ok" THEN DecErr(total.k, buf)
            ELSE IF total.n > Len(buf) THEN DecErr("NotComplete", buf)
            ELSE Children(decode_frames(Drop(buf, p.end + CRLF_LEN), p.len, <<>>))
        Header(p) == IF p.k # "Ok" THEN DecErr(p.k, buf)
                     ELSE Total(p, calc_total_length(buf, p.len, p.end, <<"*">>))
    IN  Header(parse_length(buf, <<"*">>))

RespMap_decode(buf) ==
    LET Children(r) == IF r.k # "Ok" THEN DecErr(r.k, r.rest)
                       ELSE DecOk(RespMap(r.v), r.rest)
        Total(p, total) ==
            IF total.k # "Ok" THEN DecErr(total.k, buf)
            ELSE IF total.n > Len(buf) THEN DecErr("NotComplete", buf)
            ELSE Children(decode_entries(Drop(buf, p.end + CRLF_LEN), p.len, <<>>))
        Header(p) == IF p.k # "Ok" THEN DecErr(p.k, buf)
                     ELSE Total(p, calc_total_length(buf, p.len, p.end, <<"%">>))
    IN  Header(parse_length(buf, <<"%">>))

RespSet_decode(buf) ==
    LET Children(r) == IF r.k # "Ok" THEN DecErr(r.k, r.rest)
                       ELSE DecOk(RespSet(r.v), r.rest)
        Total(p, total) ==
            IF total.k # "Ok" THEN DecErr(total.k, buf)
            ELSE IF total.n > Len(buf) THEN DecErr("NotComplete", buf)
            ELSE Children(decode_frames(Drop(buf, p.end + CRLF_LEN), p.len, <<>>))
        Header(p) == IF p.k # "Ok" THEN DecErr(p.k, buf)
                     ELSE Total(p, calc_total_length(buf, p.len, p.end, <<"~">>))
    IN  Header(parse_length(buf, <<"~">>))

\* the '$' arm: the null probe, then the length-prefixed form
decode_bulk_arm(buf) ==
    LET Probe(r) == IF r.k = "Ok" THEN r
                    ELSE IF r.k = "NotComplete" THEN DecErr("NotComplete", r.rest)
                    ELSE BulkString_decode(r.rest)
    IN  Probe(RespNullBulkString_decode(buf))

\* the '*' arm: the null probe, then the length-prefixed form
decode_array_arm(buf) ==
    LET Probe(r) == IF r.k = "Ok" THEN r
                    ELSE IF r.k = "NotComplete" THEN DecErr("NotComplete", r.rest)
                    ELSE RespArray_decode(r.rest)
    IN  Probe(RespNullArray_decode(buf))

\* a faulty dispatch that waits for more bytes on an unknown type byte
RespFrame_decode_UnknownWaits(buf) ==
    IF buf = <<>> THEN DecErr("NotComplete", buf)
    ELSE CASE buf[1] = "+" -> SimpleString_decode(buf)
           [] buf[1] = "-" -> SimpleError_decode(buf)
           [] buf[1] = ":" -> i64_decode(buf)
           [] buf[1] = "$" -> decode_bulk_arm(buf)
           [] buf[1] = "*" -> decode_array_arm(buf)
           [] buf[1] = "_" -> RespNull_decode(buf)
           [] buf[1] = "#" -> bool_decode(buf)
           [] buf[1] = "," -> f64_decode(buf)
           [] buf[1] = "%" -> RespMap_decode(buf)
           [] buf[1] = "~" -> RespSet_decode(buf)
           [] OTHER -> DecErr("NotComplete", buf)

RespFrame_decode(buf) ==
    IF buf = <<>> THEN DecErr("NotComplete", buf)
    ELSE CASE buf[1] = "+" -> SimpleString_decode(buf)
           [] buf[1] = "-" -> SimpleError_decode(buf)
           [] buf[1] = ":" -> i64_decode(buf)
           [] buf[1] = "$" -> decode_bulk_arm(buf)
           [] buf[1] = "*" -> decode_array_arm(buf)
           [] buf[1] = "_" -> RespNull_decode(buf)
           [] buf[1] = "#" -> bool_decode(buf)
           [] buf[1] = "," -> f64_decode(buf)
           [] buf[1] = "%" -> RespMap_decode(buf)
           [] buf[1] = "~" -> RespSet_decode(buf)
           [] OTHER -> DecErr("InvalidFrameType", buf)

----------------------------------------------------------------------------
(* Backend: the shared string map and hash map *)

\* strings: key -> frame; hashes: key -> (field -> frame); both start empty
Backend_new == [map |-> <<>>, hmap |-> <<>>]

Backend_get(m, key) ==
    IF key \in DOMAIN m THEN [some |-> TRUE, v |-> m[key]]
    ELSE [some |-> FALSE, v |-> NoFrame]

\* a faulty set that drops every other key
Backend_set_Single(m, key, value) == [k \in {key} |-> value]

Backend_set(m, key, value) ==
    [k \in DOMAIN m \cup {key} |-> IF k = key THEN value ELSE m[k]]

Backend_hget(h, key, field) ==
    IF key \in DOMAIN h /\ field \in DOMAIN h[key]
    THEN [some |-> TRUE, v |-> h[key][field]]
    ELSE [some |-> FALSE, v |-> NoFrame]

Backend_hset(h, key, field, value) ==
    LET inner == IF key \in DOMAIN h THEN h[key] ELSE <<>>
    IN  [k \in DOMAIN h \cup {key} |->
            IF k = key THEN Backend_set(inner, field, value) ELSE h[k]]

----------------------------------------------------------------------------
(* Command layer *)

Upper == <<"A", "B", "C", "D", "E", "F", "G", "H", "I", "J", "K", "L", "M",
           "N", "O", "P", "Q", "R", "S", "T", "U", "V", "W", "X", "Y", "Z">>
Lower == <<"a", "b", "c", "d", "e", "f", "g", "h", "i", "j", "k", "l", "m",
           "n", "o", "p", "q", "r", "s", "t", "u", "v", "w", "x", "y", "z">>

\* <[u8]>::to_ascii_lowercase
to_ascii_lowercase(s) ==
    [i \in 1..Len(s) |->
        IF \E j \in 1..26 : Upper[j] = s[i]
        THEN Lower[CHOOSE j \in 1..26 : Upper[j] = s[i]]
        ELSE s[i]]

\* String::from_utf8: fails on bytes that are not valid UTF-8
String_from_utf8(b) ==
    IF \E i \in 1..Len(b) : b[i] = BadByte THEN [ok |-> FALSE, s |-> <<>>]
    ELSE [ok |-> TRUE, s |-> b]

NameGet == <<"g", "e", "t">>
NameSet == <<"s", "e", "t">>
NameHGet == <<"h", "g", "e", "t">>
NameHSet == <<"h", "s", "e", "t">>
NameHGetAll == <<"h", "g", "e", "t", "a", "l", "l">>

Get(key) == [c |-> "Get", key |-> key]
Set(key, value) == [c |-> "Set", key |-> key, value |-> value]
HGet(key, field) == [c |-> "HGet", key |-> key, field |-> field]
HSet(key, field, value) == [c |-> "HSet", key |-> key, field |-> field, value |-> value]
HGetAll(key, sort) == [c |-> "HGetAll", key |-> key, sort |-> sort]
Unrecognized == [c |-> "Unrecognized"]
NoCmd == [c |-> "None"]

\* Result<Command, CommandError>; about is what the error message names
CmdOk(cmd) == [k |-> "Ok", cmd |-> cmd, about |-> <<>>]
CmdErr(e, about) == [k |-> e, cmd |-> NoCmd, about |-> about]

RESP_OK == SimpleString(<<"O", "K">>)

\* a faulty validator that lets an array that is too long through
validator_command_AtLeast(arr, names, n_args) ==
    IF Len(arr) < n_args + Len(names)
    THEN CmdErr("InvalidArgument", names[1])
    ELSE IF \E i \in 1..Len(names) :
                \/ arr[i].t # "BulkString"
                \/ to_ascii_lowercase(arr[i].s) # names[i]
         THEN CmdErr("InvalidCommand", names[1])
         ELSE CmdOk(NoCmd)

validator_command(arr, names, n_args) ==
    IF Len(arr) # n_args + Len(names)
    THEN CmdErr("InvalidArgument", names[1])
    ELSE IF \E i \in 1..Len(names) :
                \/ arr[i].t # "BulkString"
                \/ to_ascii_lowercase(arr[i].s) # names[i]
         THEN CmdErr("InvalidCommand", names[1])
         ELSE CmdOk(NoCmd)

\* arr.0.into_iter().skip(start).collect()
extract_args(arr, start) == Drop(arr, start)

\* match args.next() { Some(BulkString(b)) => String::from_utf8(b.0)?, _ => InvalidArgument }
\* a faulty conversion that reports invalid UTF-8 as an invalid argument
KeyArg_NoUtf8Variant(args, i, what) ==
    IF i <= Len(args) /\ args[i].t = "BulkString" /\ String_from_utf8(args[i].s).ok
    THEN [k |-> "Ok", s |-> args[i].s, about |-> <<>>]
    ELSE [k |-> "InvalidArgument", s |-> <<>>, about |-> what]

\* a faulty conversion that takes a SimpleString for a key as well
KeyArg_AnyText(args, i, what) ==
    IF i <= Len(args) /\ args[i].t \in {"BulkString", "SimpleString"}
    THEN LET Conv(u) == IF u.ok THEN [k |-> "Ok", s |-> u.s, about |-> <<>>]
                        ELSE [k |-> "Utf8Error", s |-> <<>>, about |-> what]
         IN  Conv(String_from_utf8(args[i].s))
    ELSE [k |-> "InvalidArgument", s |-> <<>>, about |-> what]

KeyArg(args, i, what) ==
    IF i <= Len(args) /\ args[i].t = "BulkString"
    THEN LET Conv(u) == IF u.ok THEN [k |-> "Ok", s |-> u.s, about |-> <<>>]
                        ELSE [k |-> "Utf8Error", s |-> <<>>, about |-> what]
         IN  Conv(String_from_utf8(args[i].s))
    ELSE [k |-> "InvalidArgument", s |-> <<>>, about |-> what]

Get_try_from(arr) ==
    LET Args(key) == IF key.k # "Ok" THEN CmdErr(key.k, key.about)
                     ELSE CmdOk(Get(key.s))
        Valid(r) == IF r.k # "Ok" THEN r
                    ELSE Args(KeyArg(extract_args(arr, 1), 1, <<"k", "e", "y">>))
    IN  Valid(validator_command(arr, <<NameGet>>, 1))

Set_try_from(arr) ==
    LET Args(args, key) ==
            IF key.k # "Ok" THEN CmdErr(key.k, key.about)
            ELSE IF Len(args) < 2 THEN CmdErr("InvalidArgument", <<"v", "a", "l", "u", "e">>)
            ELSE CmdOk(Set(key.s, args[2]))
        Valid(r) == IF r.k # "Ok" THEN r
                    ELSE Args(extract_args(arr, 1),
                              KeyArg(extract_args(arr, 1), 1, <<"k", "e", "y">>))
    IN  Valid(validator_command(arr, <<NameSet>>, 2))

HGet_try_from(arr) ==
    LET Args(key, field) ==
            IF key.k # "Ok" THEN CmdErr(key.k, key.about)
            ELSE IF field.k # "Ok" THEN CmdErr(field.k, field.about)
            ELSE CmdOk(HGet(key.s, field.s))
        Valid(r) == IF r.k # "Ok" THEN r
                    ELSE Args(KeyArg(extract_args(arr, 1), 1, <<"k", "e", "y">>),
                              KeyArg(extract_args(arr, 1), 2, <<"f", "i", "e", "l", "d">>))
    IN  Valid(validator_command(arr, <<NameHGet>>, 2))

HSet_try_from(arr) ==
    LET Args(args, key, field) ==
            IF key.k # "Ok" THEN CmdErr(key.k, key.about)
            ELSE IF field.k # "Ok" THEN CmdErr(field.k, field.about)
            ELSE IF Len(args) < 3 THEN CmdErr("InvalidArgument", <<"v", "a", "l", "u", "e">>)
            ELSE CmdOk(HSet(key.s, field.s, args[3]))
        Valid(r) == IF r.k # "Ok" THEN r
                    ELSE Args(extract_args(arr, 1),
                              KeyArg(extract_args(arr, 1), 1, <<"k", "e", "y">>),
                              KeyArg(extract_args(arr, 1), 2, <<"f", "i", "e", "l", "d">>))
    IN  Valid(validator_command(arr, <<NameHSet>>, 3))

HGetAll_try_from(arr) ==
    LET Args(key) == IF key.k # "Ok" THEN CmdErr(key.k, key.about)
                     ELSE CmdOk(HGetAll(key.s, FALSE))
        Valid(r) == IF r.k # "Ok" THEN r
                    ELSE Args(KeyArg(extract_args(arr, 1), 1, <<"k", "e", "y">>))
    IN  Valid(validator_command(arr, <<NameHGetAll>>, 1))

\* a faulty dispatch that rejects a name it does not know
Command_try_from_array_RejectUnknown(v) ==
    IF Len(v) >= 1 /\ v[1].t = "BulkString"
    THEN CASE v[1].s = NameGet -> Get_try_from(v)
           [] v[1].s = NameSet -> Set_try_from(v)
           [] v[1].s = NameHGet -> HGet_try_from(v)
           [] v[1].s = NameHSet -> HSet_try_from(v)
           [] v[1].s = NameHGetAll -> HGetAll_try_from(v)
           [] OTHER -> CmdErr("InvalidCommand", <<>>)
    ELSE CmdErr("InvalidCommand", <<>>)

\* impl TryFrom<RespArray> for Command: the name is matched byte for byte
Command_try_from_array(v) ==
    IF Len(v) >= 1 /\ v[1].t = "BulkString"
    THEN CASE v[1].s = NameGet -> Get_try_from(v)
           [] v[1].s = NameSet -> Set_try_from(v)
           [] v[1].s = NameHGet -> HGet_try_from(v)
           [] v[1].s = NameHSet -> HSet_try_from(v)
           [] v[1].s = NameHGetAll -> HGetAll_try_from(v)
           [] OTHER -> CmdOk(Unrecognized)
    ELSE CmdErr("InvalidCommand", <<>>)

\* a faulty conversion that takes a Set frame for an Array
Command_try_from_AnyList(frame) ==
    IF frame.t \in {"Array", "Set"} THEN Command_try_from_array(frame.v)
    ELSE CmdErr("InvalidCommand", <<>>)

\* impl TryFrom<RespFrame> for Command
Command_try_from(frame) ==
    IF frame.t = "Array" THEN Command_try_from_array(frame.v)
    ELSE CmdErr("InvalidCommand", <<>>)

----------------------------------------------------------------------------
(* Command execution: the reply and the backend after it *)

Executed(reply, strings, hashes) ==
    [reply |-> reply, strings |-> strings, hashes |-> hashes]

Get_execute(cmd, strings, hashes) ==
    LET Found(r) == IF r.some THEN r.v ELSE RespNull
    IN  Executed(Found(Backend_get(strings, cmd.key)), strings, hashes)

\* a faulty Set on a backend of one namespace: the key's hash makes way for
\* the string
Set_execute_OneNamespace(cmd, strings, hashes) ==
    Executed(RESP_OK, Backend_set(strings, cmd.key, cmd.value),
             [k \in DOMAIN hashes \ {cmd.key} |-> hashes[k]])

\* a faulty Set that keeps the value a key already has
Set_execute_KeepFirst(cmd, strings, hashes) ==
    IF Backend_get(strings, cmd.key).some THEN Executed(RESP_OK, strings, hashes)
    ELSE Executed(RESP_OK, Backend_set(strings, cmd.key, cmd.value), hashes)

Set_execute(cmd, strings, hashes) ==
    Executed(RESP_OK, Backend_set(strings, cmd.key, cmd.value), hashes)

HGet_execute(cmd, strings, hashes) ==
    LET Found(r) == IF r.some THEN r.v ELSE RespNull
    IN  Executed(Found(Backend_hget(hashes, cmd.key, cmd.field)), strings, hashes)

\* a faulty HSet that starts the hash afresh on every call
HSet_execute_FreshHash(cmd, strings, hashes) ==
    Executed(RESP_OK, strings,
             Backend_hset([k \in DOMAIN hashes \ {cmd.key} |-> hashes[k]],
                          cmd.key, cmd.field, cmd.value))

HSet_execute(cmd, strings, hashes) ==
    Executed(RESP_OK, strings, Backend_hset(hashes, cmd.key, cmd.field, cmd.value))

\* byte-wise order of two strings (String::cmp)
Alphabet == <<CR, LF>> \o Digit \o Upper \o Lower
Ord(c) == IF \E i \in 1..Len(Alphabet) : Alphabet[i] = c
          THEN CHOOSE i \in 1..Len(Alphabet) : Alphabet[i] = c
          ELSE 0
RECURSIVE StrLess(_, _)
StrLess(a, b) ==
    IF b = <<>> THEN FALSE
    ELSE IF a = <<>> THEN TRUE
    ELSE IF Ord(a[1]) # Ord(b[1]) THEN Ord(a[1]) < Ord(b[1])
    ELSE StrLess(Tail(a), Tail(b))

\* a faulty sort that leaves the list as it is
sort_by_key_Unsorted(order) == order

\* data.sort_by(|a, b| a.0.cmp(&b.0)) on a list of distinct keys
sort_by_key(order) ==
    [i \in 1..Len(order) |->
        CHOOSE k \in {order[j] : j \in 1..Len(order)} :
            Cardinality({order[j] : j \in {x \in 1..Len(order) : StrLess(order[x], k)}}) = i - 1]

\* a faulty flat_map that leaves the values out
flat_map_FieldsOnly(order, fields) == [i \in 1..Len(order) |-> BulkString(order[i])]

\* .flat_map(|(k, v)| vec![BulkString::new(k).into(), v])
RECURSIVE flat_map(_, _)
flat_map(order, fields) ==
    IF order = <<>> THEN <<>>
    ELSE <<BulkString(Head(order)), fields[Head(order)]>> \o flat_map(Tail(order), fields)

\* order: the fields of the hash in the order hmap.iter() yields them
HGetAll_execute(cmd, strings, hashes, order) ==
    IF cmd.key \in DOMAIN hashes
    THEN Executed(RespArray(flat_map(IF cmd.sort THEN sort_by_key(order) ELSE order,
                                     hashes[cmd.key])),
                  strings, hashes)
    ELSE Executed(RespArray(<<>>), strings, hashes)

Unrecognized_execute(cmd, strings, hashes) == Executed(RESP_OK, strings, hashes)

\* the iteration orders of a hash: every arrangement of its fields
Orders(hashes, key) ==
    IF key \in DOMAIN hashes
    THEN LET F == DOMAIN hashes[key]
         IN  {o \in [1..Cardinality(F) -> F] : \A i, j \in 1..Cardinality(F) : i # j => o[i] # o[j]}
    ELSE {<<>>}

\* Command::execute: the enum dispatch
Command_execute(cmd, strings, hashes, order) ==
    CASE cmd.c = "Get" -> Get_execute(cmd, strings, hashes)
      [] cmd.c = "Set" -> Set_execute(cmd, strings, hashes)
      [] cmd.c = "HGet" -> HGet_execute(cmd, strings, hashes)
      [] cmd.c = "HSet" -> HSet_execute(cmd, strings, hashes)
      [] cmd.c = "HGetAll" -> HGetAll_execute(cmd, strings, hashes, order)
      [] cmd.c = "Unrecognized" -> Unrecognized_execute(cmd, strings, hashes)

----------------------------------------------------------------------------
(* The frames and buffers the codec is exercised on *)

MaxLen == 2

Atoms ==
    { SimpleString(<<>>), SimpleString(<<"O", "K">>), SimpleError(<<"e">>),
      Integer(0), Integer(12), Integer(0 - 7),
      BulkString(<<>>), BulkString(<<"a">>), BulkString(<<"a", CR, LF>>),
      RespNullBulkString, RespNullArray, RespNull,
      Boolean(TRUE), Boolean(FALSE),
      Double(<<"1", ".", "5">>), Double(<<"-", "2">>) }

\* what a container of the exercised set may hold
Children ==
    { BulkString(<<"a">>), Integer(12), RespNull, Boolean(FALSE),
      RespNullBulkString, RespNullArray,
      RespArray(<<>>), RespSet(<<RespNull>>), RespMap(<<>>) }

Keys == { <<>>, <<"k">> }
Values == { BulkString(<<"a">>), RespNullBulkString, RespArray(<<>>), Boolean(TRUE) }

SeqsUpTo(S, n) == UNION {[1..m -> S] : m \in 0..n}

Frames ==
    Atoms
    \cup {RespArray(v) : v \in SeqsUpTo(Children, MaxLen)}
    \cup {RespSet(v) : v \in SeqsUpTo(Children, MaxLen)}
    \cup {RespMap(m) : m \in SeqsUpTo(Keys \X Values, MaxLen)}
    \cup { RespSet(<<RespArray(<<Integer(12), Boolean(TRUE)>>), BulkString(<<"a">>)>>),
           RespArray(<<RespArray(<<RespArray(<<>>)>>)>>) }

\* bytes that may follow a frame in the buffer: nothing, or the start of the next frame
Tails == { <<>>, <<"+">>, <<"_", CR, LF>>, <<"*", "0", CR, LF>>, <<"$", "1", CR, LF, "a", CR, LF>> }

----------------------------------------------------------------------------
(* The codec harness: fill a buffer as the unit tests do, then call the codec *)

NoInput == [f |-> NoFrame, k |-> 0, tail |-> <<>>]
LenNotCalled == [k |-> "NotCalled", n |-> 0]
DecNotCalled == [k |-> "NotCalled", f |-> NoFrame, rest |-> <<>>, before |-> <<>>]

\* BytesMut::new(); buf.extend_from_slice(the first k bytes of encode(f), then tail)
Fill(f, k, tail) ==
    /\ input = NoInput
    /\ tail # <<>> => k = Len(encode(f))
    /\ src' = Take(encode(f), k) \o tail
    /\ input' = [f |-> f, k |-> k, tail |-> tail]
    /\ elen' = LenNotCalled
    /\ dec' = DecNotCalled
    /\ UNCHANGED <<parseVars, backendVars, execVars, connVars, sharedVars>>

\* buf.extend_from_slice(the bytes of encode(f) not yet in the buffer), after
\* a decode that asked for more
Extend ==
    /\ dec.k = "NotComplete"
    /\ input.k < Len(encode(input.f))
    /\ src' = src \o Drop(encode(input.f), input.k)
    /\ input' = [input EXCEPT !.k = Len(encode(input.f))]
    /\ elen' = LenNotCalled
    /\ dec' = DecNotCalled
    /\ UNCHANGED <<parseVars, backendVars, execVars, connVars, sharedVars>>

\* RespFrame::expect_length(&buf)
ExpectLength ==
    /\ input # NoInput
    /\ elen.k = "NotCalled"
    /\ dec.k = "NotCalled"
    /\ elen' = RespFrame_expect_length(src)
    /\ UNCHANGED <<src, input, dec>>
    /\ UNCHANGED <<parseVars, backendVars, execVars, connVars, sharedVars>>

\* RespFrame::decode(&mut buf)
Decode ==
    /\ input # NoInput
    /\ dec.k = "NotCalled"
    /\ LET Called(r) == /\ dec' = [k |-> r.k, f |-> r.f, rest |-> r.rest, before |-> src]
                        /\ src' = r.rest
       IN  Called(RespFrame_decode(src))
    /\ UNCHANGED <<input, elen>>
    /\ UNCHANGED <<parseVars, backendVars, execVars, connVars, sharedVars>>

\* the buffer goes out of scope at the end of a test
DropBuf ==
    /\ input # NoInput
    /\ src' = <<>>
    /\ input' = NoInput
    /\ elen' = LenNotCalled
    /\ dec' = DecNotCalled
    /\ UNCHANGED <<parseVars, backendVars, execVars, connVars, sharedVars>>

\* the bytes raw buffers are made of: type bytes, bytes that are none, CR and LF
MaxBytes == 3
RawAlphabet == {"+", "$", "_", "!", "a", "0", CR, LF}
RawInput == [t |-> "Raw"]

\* BytesMut::new(); buf.extend_from_slice(b) for bytes that need not be a frame
FillBytes(b) ==
    /\ input = NoInput
    /\ src' = b
    /\ input' = [f |-> RawInput, k |-> 0, tail |-> b]
    /\ elen' = LenNotCalled
    /\ dec' = DecNotCalled
    /\ UNCHANGED <<parseVars, backendVars, execVars, connVars, sharedVars>>

\* Map wire forms written out byte by byte: "%" entries CRLF, then for each entry
\* "+" key CRLF and the value's wire form
MaxEntries == 2
MapKeys == {<<"h", "e", "l", "l", "o">>, <<"f", "o", "o">>, <<"a">>}
MapValues ==
    { [f |-> BulkString(<<"w", "o", "r", "l", "d">>),
       wire |-> <<"$", "5", CR, LF, "w", "o", "r", "l", "d", CR, LF>>],
      [f |-> BulkString(<<"b", "a", "r">>),
       wire |-> <<"$", "3", CR, LF, "b", "a", "r", CR, LF>>],
      [f |-> SimpleString(<<"a">>), wire |-> <<"+", "a", CR, LF>>] }
MapEntrySeqs ==
    UNION { { es \in [1..n -> MapKeys \X MapValues] :
                \A i, j \in 1..n : es[i][1] = es[j][1] => i = j } : n \in 0..MaxEntries }

RECURSIVE EntriesWire(_)
EntriesWire(es) ==
    IF es = <<>> THEN <<>>
    ELSE <<"+">> \o Head(es)[1] \o <<CR, LF>> \o Head(es)[2].wire \o EntriesWire(Tail(es))

MapWire(es) == <<"%">> \o ToDec(Len(es)) \o <<CR, LF>> \o EntriesWire(es)
MapWires == {MapWire(es) : es \in MapEntrySeqs}

\* complete header lines whose payload is no valid number: an Integer line that
\* is no i64, and a length line that is no usize (the null forms $-1 and *-1
\* set aside), each alone and followed by further bytes
LengthPrefixes == {"$", "*", "%", "~"}
BadIntegers == {<<>>, <<"a">>, <<"1", "a">>, <<"-">>}
BadLengths == {<<>>, <<"a">>, <<"1", "a">>, <<"-", "1">>, <<"-", "2">>}
HeaderTails == {<<>>, <<"a">>, <<"+", "a", CR, LF>>}
BadHeaderLines ==
    ({<<":">> \o s \o <<CR, LF>> : s \in BadIntegers}
       \cup {<<q>> \o s \o <<CR, LF>> : q \in LengthPrefixes, s \in BadLengths})
    \ {<<"$", "-", "1", CR, LF>>, <<"*", "-", "1", CR, LF>>}
BadHeaders == {h \o tail : h \in BadHeaderLines, tail \in HeaderTails}

\* whole containers with a child position that starts with no type byte: the
\* child alone, after a good child, as a Map value, and one level further down
UnknownChild == <<"!", "x", CR, LF>>
GoodChild == <<"+", "a", CR, LF>>
BadChildWires ==
    {<<q, "1", CR, LF>> \o UnknownChild : q \in {"*", "~"}}
    \cup {<<q, "2", CR, LF>> \o GoodChild \o UnknownChild : q \in {"*", "~"}}
    \cup {<<"%", "1", CR, LF>> \o GoodChild \o UnknownChild}
    \cup {<<q, "1", CR, LF, r, "1", CR, LF>> \o UnknownChild : q \in {"*", "~"}, r \in {"*", "~"}}

\* bulk wire forms: "$" L CRLF, a payload of L bytes (CR and LF among them),
\* two bytes where the terminator belongs, and what follows
BulkPayloads == {<<>>, <<"a">>, <<CR, LF>>, <<"a", CR, LF>>, <<CR, LF, "a">>, <<LF, "a", CR>>}
BulkEnds == {<<CR, LF>>, <<"x", "y">>, <<LF, CR>>, <<CR, "x">>, <<"x", LF>>}
BulkTails == {<<>>, <<"+">>, <<"_", CR, LF>>}
BulkWire(payload, end, tail) ==
    <<"$">> \o ToDec(Len(payload)) \o <<CR, LF>> \o payload \o end \o tail
BulkWires ==
    {BulkWire(payload, end, tail) : payload \in BulkPayloads, end \in BulkEnds, tail \in BulkTails}

BytesNext ==
    \/ \E b \in SeqsUpTo(RawAlphabet, MaxBytes) \cup MapWires \cup BadHeaders
                  \cup BadChildWires \cup BulkWires :
           FillBytes(b)
    \/ Decode
    \/ DropBuf

CodecNext ==
    \/ \E f \in Frames : \E k \in 0..Len(encode(f)) : \E tail \in Tails : Fill(f, k, tail)
    \/ Extend
    \/ ExpectLength
    \/ Decode
    \/ DropBuf

\* the integer tests: every i64 encoded whole into the buffer, then decoded
IntegerNext ==
    \/ \E n \in I64_MIN..I64_MAX : Fill(Integer(n), Len(encode(Integer(n))), <<>>)
    \/ Decode
    \/ DropBuf

----------------------------------------------------------------------------
(* The parser harness: hand a frame to Command::try_from, as the unit tests do *)

MaxArgs == 4

KeyK == <<"k">>
KeyJ == <<"j">>
FieldF == <<"f">>
FieldG == <<"g">>
FieldFa == <<"f", "a">>

Names == {NameGet, NameSet, NameHGet, NameHSet, NameHGetAll}

UpperOf(c) == IF \E j \in 1..26 : Lower[j] = c
              THEN Upper[CHOOSE j \in 1..26 : Lower[j] = c]
              ELSE c

\* every upper/lower-case spelling of a name
RECURSIVE Spellings(_)
Spellings(name) ==
    IF name = <<>> THEN {<<>>}
    ELSE {<<c>> \o s : c \in {Head(name), UpperOf(Head(name))}, s \in Spellings(Tail(name))}

\* the argument lists of the right shape for a command name
RightArgs(name) ==
    CASE name = NameGet -> {<<BulkString(KeyK)>>}
      [] name = NameSet -> {<<BulkString(KeyK), v>> : v \in Values}
      [] name = NameHGet -> {<<BulkString(KeyK), BulkString(FieldF)>>}
      [] name = NameHSet -> {<<BulkString(KeyK), BulkString(FieldF), v>> : v \in Values}
      [] name = NameHGetAll -> {<<BulkString(KeyK)>>}

ArgPool == {BulkString(KeyK), BulkString(<<BadByte>>), Integer(12), RespNullBulkString}

\* one frame of every variant, and a BulkString that is not valid UTF-8
Variants ==
    { SimpleString(<<"O", "K">>), SimpleError(<<"e">>), Integer(12), BulkString(KeyK),
      RespNullBulkString, RespArray(<<>>), RespNullArray, RespNull, Boolean(TRUE),
      Double(<<"1", ".", "5">>), RespMap(<<>>), RespSet(<<>>), BulkString(<<BadByte>>) }

ParseFrames ==
    UNION {{RespArray(<<BulkString(s)>> \o args) : s \in Spellings(name), args \in RightArgs(name)}
           : name \in Names}
    \cup UNION {{RespArray(<<BulkString(name)>> \o args) : name \in Names, args \in [1..m -> Variants]}
                : m \in 1..3}
    \cup {RespArray(<<BulkString(name)>> \o args) :
            name \in Names \cup {<<"p", "i", "n", "g">>}, args \in SeqsUpTo(ArgPool, MaxArgs)}
    \cup Atoms
    \cup {RespArray(<<>>), RespArray(<<Integer(12)>>), RespArray(<<RespNull, BulkString(KeyK)>>),
          RespArray(<<SimpleString(NameGet), BulkString(KeyK)>>),
          RespArray(<<RespNullBulkString, BulkString(KeyK)>>),
          RespArray(<<RespArray(<<BulkString(NameGet), BulkString(KeyK)>>)>>),
          RespSet(<<BulkString(NameGet), BulkString(KeyK)>>),
          RespMap(<<>>), RespSet(<<>>)}

ParseNotCalled == [k |-> "NotCalled", cmd |-> NoCmd, about |-> <<>>]

\* let cmd: Result<Command, CommandError> = frame.try_into();
TryFrom(f) ==
    /\ arg = NoFrame
    /\ arg' = f
    /\ parsed' = Command_try_from(f)
    /\ UNCHANGED <<codecVars, backendVars, execVars, connVars, sharedVars>>

DropFrame ==
    /\ arg # NoFrame
    /\ arg' = NoFrame
    /\ parsed' = ParseNotCalled
    /\ UNCHANGED <<codecVars, backendVars, execVars, connVars, sharedVars>>

ParseNext ==
    \/ \E f \in ParseFrames : TryFrom(f)
    \/ DropFrame

----------------------------------------------------------------------------
(* The executor harness: commands executed on one backend, as the unit tests do *)

MaxCmds == 4

ValueA == BulkString(<<"a">>)
ValueB == BulkString(<<"b">>)

Commands ==
    { Get(KeyK), Get(KeyJ),
      Set(KeyK, ValueA), Set(KeyK, ValueB), Set(KeyJ, ValueA),
      HGet(KeyK, FieldF), HGet(KeyJ, FieldF),
      HSet(KeyK, FieldF, ValueA), HSet(KeyK, FieldG, ValueB), HSet(KeyK, FieldF, ValueB),
      HSet(KeyK, FieldFa, ValueA),
      HGetAll(KeyK, TRUE), HGetAll(KeyK, FALSE),
      Unrecognized }

OrdersFor(cmd, h) == IF cmd.c = "HGetAll" THEN Orders(h, cmd.key) ELSE {<<>>}

\* cmd.execute(&backend)
Execute(cmd) ==
    /\ Len(hist) < MaxCmds
    /\ \E order \in OrdersFor(cmd, hmap) :
         LET Done(ex) == /\ map' = ex.strings
                         /\ hmap' = ex.hashes
                         /\ hist' = Append(hist, [cmd |-> cmd, reply |-> ex.reply])
         IN  Done(Command_execute(cmd, map, hmap, order))
    /\ UNCHANGED <<codecVars, parseVars, connVars, sharedVars>>

ExecNext == \E cmd \in Commands : Execute(cmd)

----------------------------------------------------------------------------
(* The connection driver: stream_handler over Framed<TcpStream, RespFrameCodec> *)

MaxSends == 2

Cmd1(name, a) == RespArray(<<BulkString(name), a>>)
Cmd2(name, a, b) == RespArray(<<BulkString(name), a, b>>)
Cmd3(name, a, b, c) == RespArray(<<BulkString(name), a, b, c>>)

\* what the client writes: commands, and frames that are no command
ClientFrames ==
    { Cmd1(NameGet, BulkString(KeyK)),
      Cmd1(<<"G", "E", "T">>, BulkString(KeyK)),
      Cmd2(NameSet, BulkString(KeyK), ValueA),
      Cmd2(NameSet, BulkString(KeyK), ValueB),
      Cmd2(NameHGet, BulkString(KeyK), BulkString(FieldF)),
      Cmd3(NameHSet, BulkString(KeyK), BulkString(FieldF), ValueA),
      Cmd3(NameHSet, BulkString(KeyK), BulkString(FieldG), ValueB),
      Cmd1(NameHGetAll, BulkString(KeyK)),
      RespArray(<<BulkString(<<"p", "i", "n", "g">>)>>),
      RespArray(<<BulkString(<<"p", "i", "n", "g">>), Integer(12), RespNull>>),
      RespNull,
      RespArray(<<Integer(12)>>),
      RespArray(<<BulkString(NameGet)>>),
      Cmd1(NameGet, Integer(12)),
      Cmd1(NameGet, BulkString(<<BadByte>>)) }

Running == pc \in {"next", "handle", "send"}

\* the client writes one encoded frame to the socket
ClientSend(f) ==
    /\ Running
    /\ peer = "open"
    /\ nsent < MaxSends
    /\ wire' = wire \o encode(f)
    /\ nsent' = nsent + 1
    /\ sent' = Append(sent, f)
    /\ UNCHANGED <<peer, rbuf, readable, eof, pc, cur, resp, err, out, decoded, execd>>
    /\ UNCHANGED <<codecVars, parseVars, backendVars, execVars, sharedVars>>

\* bytes that are no encoded frame: an unknown type byte, a number that is
\* none, the header of a bulk string of 512 MiB and one byte
RawBytes ==
    { <<"!", "x", CR, LF>>, <<":", "x", CR, LF>>,
      <<"$", "5", "3", "6", "8", "7", "0", "9", "1", "3", CR, LF>> }

\* the client writes bytes that are no encoded frame
ClientSendBytes(b) ==
    /\ Running
    /\ peer = "open"
    /\ nsent < MaxSends
    /\ wire' = wire \o b
    /\ nsent' = nsent + 1
    /\ sent' = Append(sent, NoFrame)
    /\ UNCHANGED <<peer, rbuf, readable, eof, pc, cur, resp, err, out, decoded, execd>>
    /\ UNCHANGED <<codecVars, parseVars, backendVars, execVars, sharedVars>>

\* values a client may store: one frame of every variant, and nested containers
WireValues ==
    { SimpleString(<<"O", "K">>), SimpleError(<<"e">>), Integer(12), BulkString(<<"a">>),
      BulkString(<<>>), RespNullBulkString, RespNullArray, RespNull, Boolean(TRUE),
      Double(<<"1", ".", "5">>),
      RespArray(<<>>), RespArray(<<Integer(12), BulkString(<<"a">>)>>),
      RespArray(<<RespArray(<<RespSet(<<RespNull>>)>>)>>),
      RespMap(<<>>), RespMap(<<<<KeyK, RespArray(<<Boolean(FALSE)>>)>>>>),
      RespSet(<<>>), RespSet(<<RespMap(<<<<KeyK, Integer(12)>>>>)>>) }

\* the client writes a set or hset of a value and then a get or hget of the
\* same key, as one write
ClientSendPair(store, load) ==
    /\ Running
    /\ peer = "open"
    /\ nsent = 0
    /\ wire' = wire \o encode(store) \o encode(load)
    /\ nsent' = 2
    /\ sent' = <<store, load>>
    /\ UNCHANGED <<peer, rbuf, readable, eof, pc, cur, resp, err, out, decoded, execd>>
    /\ UNCHANGED <<codecVars, parseVars, backendVars, execVars, sharedVars>>

\* the client shuts down its side of the connection
ClientClose ==
    /\ Running
    /\ peer = "open"
    /\ peer' = "closed"
    /\ UNCHANGED <<wire, nsent, sent, rbuf, readable, eof, pc, cur, resp, err, out, decoded, execd>>
    /\ UNCHANGED <<codecVars, parseVars, backendVars, execVars, sharedVars>>

\* framed.next(), the read half: n bytes arrive in the read buffer, or the
\* read returns 0 at end-of-file
FramedRead ==
    /\ pc = "next"
    /\ ~readable
    /\ IF wire # <<>>
       THEN \E n \in 1..Len(wire) :
                /\ rbuf' = rbuf \o Take(wire, n)
                /\ wire' = Drop(wire, n)
                /\ eof' = FALSE
       ELSE /\ peer = "closed"
            /\ ~eof
            /\ eof' = TRUE
            /\ UNCHANGED <<rbuf, wire>>
    /\ readable' = TRUE
    /\ UNCHANGED <<peer, nsent, sent, pc, cur, resp, err, out, decoded, execd>>
    /\ UNCHANGED <<codecVars, parseVars, backendVars, execVars, sharedVars>>

\* the socket fails: the read of framed.next() or the write of framed.send()
\* returns an io::Error, which stream_handler returns
IoError ==
    /\ \/ pc = "next" /\ ~readable /\ ~eof
       \/ pc = "send"
    /\ peer = "open"
    /\ peer' = "reset"
    /\ pc' = "done_err"
    /\ err' = "Io"
    /\ UNCHANGED <<wire, nsent, sent, rbuf, readable, eof, cur, resp, out, decoded, execd>>
    /\ UNCHANGED <<codecVars, parseVars, backendVars, execVars, sharedVars>>

\* a faulty Decoder that passes NotComplete on as an error
RespFrameCodec_decode_Strict(buf) ==
    LET Mapped(r) == IF r.k = "Ok" THEN [k |-> "Some", f |-> r.f, rest |-> r.rest]
                     ELSE [k |-> r.k, f |-> NoFrame, rest |-> r.rest]
    IN  Mapped(RespFrame_decode(buf))

\* impl Decoder for RespFrameCodec: NotComplete becomes Ok(None)
RespFrameCodec_decode(buf) ==
    LET Mapped(r) == IF r.k = "Ok" THEN [k |-> "Some", f |-> r.f, rest |-> r.rest]
                     ELSE IF r.k = "NotComplete" THEN [k |-> "None", f |-> NoFrame, rest |-> r.rest]
                     ELSE [k |-> r.k, f |-> NoFrame, rest |-> r.rest]
    IN  Mapped(RespFrame_decode(buf))

\* a faulty framed.next() that does not end the stream at end-of-file
FramedDecode_IgnoresEof ==
    /\ pc = "next"
    /\ readable
    /\ LET Yield(r) ==
               /\ rbuf' = r.rest
               /\ IF r.k = "Some"
                  THEN /\ pc' = "handle"
                       /\ cur' = r.f
                       /\ decoded' = Append(decoded, r.f)
                       /\ UNCHANGED <<readable, err>>
                  ELSE IF r.k = "None"
                  THEN /\ readable' = FALSE
                       /\ UNCHANGED <<pc, err, cur, decoded>>
                  ELSE /\ pc' = "done_err"
                       /\ err' = r.k
                       /\ UNCHANGED <<readable, cur, decoded>>
       IN  Yield(RespFrameCodec_decode(rbuf))
    /\ UNCHANGED <<wire, peer, nsent, sent, eof, resp, out, execd>>
    /\ UNCHANGED <<codecVars, parseVars, backendVars, execVars, sharedVars>>

\* framed.next(), the decode half, and the match on what it yields
FramedDecode ==
    /\ pc = "next"
    /\ readable
    /\ LET Yield(r) ==
               /\ rbuf' = r.rest
               /\ IF r.k = "Some"
                  THEN /\ pc' = "handle"
                       /\ cur' = r.f
                       /\ decoded' = Append(decoded, r.f)
                       /\ UNCHANGED <<readable, err>>
                  ELSE IF r.k = "None"
                  THEN /\ readable' = FALSE
                       /\ pc' = IF ~eof THEN "next"
                                ELSE IF r.rest = <<>> THEN "done_ok" ELSE "done_err"
                       /\ err' = IF eof /\ r.rest # <<>> THEN "BytesRemaining" ELSE err
                       /\ UNCHANGED <<cur, decoded>>
                  ELSE /\ pc' = "done_err"
                       /\ err' = r.k
                       /\ UNCHANGED <<readable, cur, decoded>>
       IN  Yield(RespFrameCodec_decode(rbuf))
    /\ UNCHANGED <<wire, peer, nsent, sent, eof, resp, out, execd>>
    /\ UNCHANGED <<codecVars, parseVars, backendVars, execVars, sharedVars>>

\* request_handler(req).await?: parse the command and execute it; a parse
\* error is returned with `?`, out of request_handler and out of stream_handler
RequestHandler ==
    /\ pc = "handle"
    /\ LET Parsed(p) ==
               IF p.k # "Ok"
               THEN /\ pc' = "done_err"
                    /\ err' = p.k
                    /\ UNCHANGED <<resp, execd, map, hmap>>
               ELSE \E order \in OrdersFor(p.cmd, hmap) :
                      LET Done(ex) ==
                              /\ map' = ex.strings
                              /\ hmap' = ex.hashes
                              /\ resp' = ex.reply
                              /\ execd' = Append(execd, [frame |-> cur, reply |-> ex.reply])
                              /\ pc' = "send"
                              /\ err' = err
                      IN  Done(Command_execute(p.cmd, map, hmap, order))
       IN  Parsed(Command_try_from(cur))
    /\ UNCHANGED <<wire, peer, nsent, sent, rbuf, readable, eof, cur, out, decoded>>
    /\ UNCHANGED <<codecVars, parseVars, execVars, sharedVars>>

\* a faulty encoder that writes OK whatever the reply is
RespFrameCodec_encode_AlwaysOk(item, dst) == dst \o encode(RESP_OK)

\* impl Encoder<RespFrame> for RespFrameCodec
RespFrameCodec_encode(item, dst) == dst \o encode(item)

\* framed.send(res.frame).await?
Send ==
    /\ pc = "send"
    /\ out' = Append(out, RespFrameCodec_encode(resp, <<>>))
    /\ pc' = "next"
    /\ UNCHANGED <<wire, peer, nsent, sent, rbuf, readable, eof, cur, resp, err, decoded, execd>>
    /\ UNCHANGED <<codecVars, parseVars, backendVars, execVars, sharedVars>>

\* one client storing a value and reading it back
ValueNext ==
    \/ \E v \in WireValues :
          \/ ClientSendPair(Cmd2(NameSet, BulkString(KeyK), v), Cmd1(NameGet, BulkString(KeyK)))
          \/ ClientSendPair(Cmd3(NameHSet, BulkString(KeyK), BulkString(FieldF), v),
                            Cmd2(NameHGet, BulkString(KeyK), BulkString(FieldF)))
    \/ ClientClose
    \/ FramedRead
    \/ FramedDecode
    \/ RequestHandler
    \/ Send

\* what the client of the terminating connection writes: two commands, a
\* frame that is no command, a command of the wrong arity
LiveFrames ==
    { Cmd1(NameGet, BulkString(KeyK)),
      Cmd2(NameSet, BulkString(KeyK), ValueA),
      Cmd2(NameSet, BulkString(KeyK), RespArray(<<>>)),
      RespNull,
      RespArray(<<BulkString(NameGet)>>) }

LiveNext ==
    \/ \E f \in LiveFrames : ClientSend(f)
    \/ ClientSendBytes(<<"!", "x", CR, LF>>)
    \/ ClientClose
    \/ IoError
    \/ FramedRead
    \/ FramedDecode
    \/ RequestHandler
    \/ Send

ConnNext ==
    \/ \E f \in ClientFrames : ClientSend(f)
    \/ \E b \in RawBytes : ClientSendBytes(b)
    \/ ClientClose
    \/ IoError
    \/ FramedRead
    \/ FramedDecode
    \/ RequestHandler
    \/ Send

----------------------------------------------------------------------------
(* Several connections on one backend: request_handler run by several tasks *)

MaxConns == 2
MaxOps == 3

Conns == 1..MaxConns

\* the fields a hash may hold, and the orders hmap.iter() may visit them in
SharedFields == {FieldF, FieldG}
IterOrders ==
    {o \in [1..Cardinality(SharedFields) -> SharedFields] :
        \A i, j \in 1..Cardinality(SharedFields) : i # j => o[i] # o[j]}

\* what the clients send
SharedFrames ==
    { Cmd2(NameSet, BulkString(KeyK), ValueA),
      Cmd2(NameSet, BulkString(KeyK), ValueB),
      Cmd2(NameSet, BulkString(KeyJ), ValueA),
      Cmd1(NameGet, BulkString(KeyK)),
      Cmd3(NameHSet, BulkString(KeyK), BulkString(FieldF), ValueA),
      Cmd3(NameHSet, BulkString(KeyK), BulkString(FieldG), ValueB),
      Cmd2(NameHGet, BulkString(KeyK), BulkString(FieldF)),
      Cmd1(NameHGetAll, BulkString(KeyK)) }

Idle == [pc |-> "idle", cmd |-> NoCmd, since |-> 0, order |-> <<>>, i |-> 0, data |-> <<>>]

\* the commands begun so far: those executed and those under way
Begun ==
    Len(log) + Cardinality({c \in Conns : task[c].pc # "idle"})

\* what is recorded of a command when it returns: the connection, the
\* command, the reply, and how many commands had returned when it began
Entry(c, cmd, reply) == [c |-> c, cmd |-> cmd, reply |-> reply, since |-> task[c].since]

\* connection c has sent a command
Spoke(c) == task[c].pc # "idle" \/ \E j \in 1..Len(log) : log[j].c = c

\* request_handler on connection c begins: the frame is parsed. The
\* connections are numbered in the order of their first command.
Begin(c, f) ==
    /\ task[c].pc = "idle"
    /\ Begun < MaxOps
    /\ c > 1 => Spoke(c - 1)
    /\ LET Parsed(p) == /\ p.k = "Ok"
                        /\ task' = [task EXCEPT ![c] = [Idle EXCEPT !.pc = "exec", !.cmd = p.cmd,
                                                                     !.since = Len(log)]]
       IN  Parsed(Command_try_from(f))
    /\ UNCHANGED <<log, map, hmap>>
    /\ UNCHANGED <<codecVars, parseVars, execVars, connVars>>

\* a faulty request whose backend.clone() copies the maps: what the command
\* stores is lost with the copy
Exec_OwnCopy(c) ==
    /\ task[c].pc = "exec"
    /\ IF task[c].cmd.c = "HGetAll" /\ task[c].cmd.key \in DOMAIN hmap
       THEN \E order \in IterOrders :
              /\ task' = [task EXCEPT ![c].pc = "iter", ![c].order = order, ![c].i = 1]
              /\ UNCHANGED <<log, map, hmap>>
       ELSE LET Done(ex) ==
                    /\ UNCHANGED <<map, hmap>>
                    /\ task' = [task EXCEPT ![c] = Idle]
                    /\ log' = Append(log, Entry(c, task[c].cmd, ex.reply))
            IN  Done(Command_execute(task[c].cmd, map, hmap, <<>>))
    /\ UNCHANGED <<codecVars, parseVars, execVars, connVars>>

\* cmd.execute(&backend) on the backend all connections hold a handle of,
\* and the reply is sent. Get, Set, HGet and HSet are one access to a map
\* entry; HGetAll takes the hash and starts to iterate.
Exec(c) ==
    /\ task[c].pc = "exec"
    /\ IF task[c].cmd.c = "HGetAll" /\ task[c].cmd.key \in DOMAIN hmap
       THEN \E order \in IterOrders :
              /\ task' = [task EXCEPT ![c].pc = "iter", ![c].order = order, ![c].i = 1]
              /\ UNCHANGED <<log, map, hmap>>
       ELSE LET Done(ex) ==
                    /\ map' = ex.strings
                    /\ hmap' = ex.hashes
                    /\ task' = [task EXCEPT ![c] = Idle]
                    /\ log' = Append(log, Entry(c, task[c].cmd, ex.reply))
            IN  Done(Command_execute(task[c].cmd, map, hmap, <<>>))
    /\ UNCHANGED <<codecVars, parseVars, execVars, connVars>>

\* a faulty iteration that pairs a field with the value of any field of the hash
Iterate_Torn(c) ==
    /\ task[c].pc = "iter"
    /\ task[c].i <= Len(task[c].order)
    /\ LET field == task[c].order[task[c].i]
           inner == hmap[task[c].cmd.key]
       IN  \E g \in DOMAIN inner :
             task' = [task EXCEPT ![c].i = @ + 1,
                                  ![c].data = IF field \in DOMAIN inner
                                              THEN Append(@, <<field, inner[g]>>)
                                              ELSE @]
    /\ UNCHANGED <<log, map, hmap>>
    /\ UNCHANGED <<codecVars, parseVars, execVars, connVars>>

\* one step of `for v in hmap.iter()`: the entry the iterator stands at, if
\* the hash holds it now, is pushed with the value it has now
Iterate(c) ==
    /\ task[c].pc = "iter"
    /\ task[c].i <= Len(task[c].order)
    /\ LET field == task[c].order[task[c].i]
           inner == hmap[task[c].cmd.key]
       IN  task' = [task EXCEPT ![c].i = @ + 1,
                                ![c].data = IF field \in DOMAIN inner
                                            THEN Append(@, <<field, inner[field]>>)
                                            ELSE @]
    /\ UNCHANGED <<log, map, hmap>>
    /\ UNCHANGED <<codecVars, parseVars, execVars, connVars>>

\* .flat_map(|(k, v)| vec![BulkString::new(k).into(), v]) over the pairs pushed
RECURSIVE UnionPairs(_)
UnionPairs(data) ==
    IF data = <<>> THEN <<>>
    ELSE flat_map(<<Head(data)[1]>>, [n \in {Head(data)[1]} |-> Head(data)[2]])
         \o UnionPairs(Tail(data))

\* the entries pushed, sorted if asked for, flattened into the reply
Collect(cmd, data) ==
    LET names == [j \in 1..Len(data) |-> data[j][1]]
        fields == [n \in {data[j][1] : j \in 1..Len(data)} |->
                      data[CHOOSE j \in 1..Len(data) : data[j][1] = n][2]]
    IN  IF cmd.sort THEN RespArray(flat_map(sort_by_key(names), fields))
        ELSE RespArray(UnionPairs(data))

\* the iterator is exhausted: HGetAll::execute returns the Array, and the
\* reply is sent
Finish(c) ==
    /\ task[c].pc = "iter"
    /\ task[c].i > Len(task[c].order)
    /\ task' = [task EXCEPT ![c] = Idle]
    /\ log' = Append(log, Entry(c, task[c].cmd, Collect(task[c].cmd, task[c].data)))
    /\ UNCHANGED <<map, hmap>>
    /\ UNCHANGED <<codecVars, parseVars, execVars, connVars>>

SharedNext ==
    \E c \in Conns :
        \/ \E f \in SharedFrames : Begin(c, f)
        \/ Exec(c)
        \/ Iterate(c)
        \/ Finish(c)

----------------------------------------------------------------------------
(* Specifications *)

\* no buffer filled, no frame parsed, Backend::new(), a connection just accepted
Init ==
    /\ src = <<>>
    /\ input = NoInput
    /\ elen = LenNotCalled
    /\ dec = DecNotCalled
    /\ arg = NoFrame
    /\ parsed = ParseNotCalled
    /\ map = Backend_new.map
    /\ hmap = Backend_new.hmap
    /\ hist = <<>>
    /\ wire = <<>>
    /\ peer = "open"
    /\ nsent = 0
    /\ sent = <<>>
    /\ rbuf = <<>>
    /\ readable = FALSE
    /\ eof = FALSE
    /\ pc = "next"
    /\ cur = NoFrame
    /\ resp = NoFrame
    /\ err = "None"
    /\ out = <<>>
    /\ decoded = <<>>
    /\ execd = <<>>
    /\ task = [c \in Conns |-> Idle]
    /\ log = <<>>

\* the codec called on buffers filled from encoded frames
SpecCodec == Init /\ [][CodecNext]_vars

\* the codec called on buffers of any bytes
SpecBytes == Init /\ [][BytesNext]_vars

\* the codec called on the encoding of every integer
SpecInteger == Init /\ [][IntegerNext]_vars

\* Command::try_from called on frames
SpecParse == Init /\ [][ParseNext]_vars

\* commands executed one after another on one backend
SpecExec == Init /\ [][ExecNext]_vars

\* one connection served by stream_handler
SpecConn == Init /\ [][ConnNext]_vars

\* one connection served by stream_handler, the task polled as long as it can
\* go on: the runtime keeps running a task that is ready. The last conjunct
\* is WF_vars(FramedDecode) written out: the step is enabled exactly when the
\* driver is at reading with bytes to look at, and it always changes pc or
\* readable.
LiveConn ==
    /\ Init /\ [][LiveNext]_vars
    /\ WF_vars(FramedRead) /\ WF_vars(RequestHandler) /\ WF_vars(Send)
    /\ ([]<>~(pc = "next" /\ readable) \/ []<><<FramedDecode>>_vars)

\* one connection on which a value is stored and read back
SpecValue == Init /\ [][ValueNext]_vars

\* several connections executing commands on the one backend
SpecShared == Init /\ [][SharedNext]_vars

----------------------------------------------------------------------------
(* Claims about the codec, checked under SpecCodec *)

Decoded == dec.k # "NotCalled"
Whole(f) == encode(f)

\* C1: whenever RespFrame::decode returns NotComplete, the buffer is
\* byte-for-byte what it was before the call.
C1_IncompleteLeavesBuffer ==
    dec.k = "NotComplete" => src = dec.before

\* C2: decode on a buffer holding exactly encode(f) returns f and leaves the
\* buffer empty, for every frame f of every variant.
C2_RoundTrip ==
    (Decoded /\ input # NoInput /\ dec.before = Whole(input.f))
        => (dec.k = "Ok" /\ dec.f = input.f /\ src = <<>>)

\* C3: decode on a proper prefix of encode(f) returns NotComplete and does
\* not advance the buffer.
C3_ProperPrefixIncomplete ==
    (Decoded /\ input # NoInput /\ input.k < Len(Whole(input.f))
             /\ dec.before = Take(Whole(input.f), input.k))
        => (dec.k = "NotComplete" /\ src = dec.before)

\* C4: decode on encode(f) ++ b returns f and leaves exactly b in the buffer,
\* for every byte sequence b, empty or not.
C4_ConsumesOneFrame ==
    (Decoded /\ input # NoInput /\ dec.before = Whole(input.f) \o input.tail)
        => (dec.k = "Ok" /\ dec.f = input.f /\ src = input.tail)

\* C5: expect_length(encode(f)) is Ok(n) with n the byte length of encode(f),
\* for every frame f, the null forms included.
C5_ExpectLengthOfEncoding ==
    (elen.k # "NotCalled" /\ input.k = Len(Whole(input.f)) /\ input.tail = <<>>)
        => elen = LenOk(Len(Whole(input.f)))

\* C6: on every buffer on which decode succeeds, expect_length on the same
\* initial buffer is Ok(n) with n the number of bytes decode removed.
C6_DecodeConsumesExpectLength ==
    (dec.k = "Ok" /\ elen.k # "NotCalled")
        => (elen.k = "Ok" /\ elen.n = Len(dec.before) - Len(src))

----------------------------------------------------------------------------
(* Claims about the connection driver, checked under SpecConn *)

\* C7: when the driver handles a decoded frame that fails command parsing, it
\* goes on to send a SimpleError frame and the connection stays open.
C7_ParseFailureAnswered ==
    [][(pc = "handle" /\ pc' # "handle" /\ Command_try_from(cur).k # "Ok")
          => (pc' = "send" /\ resp'.t = "SimpleError")]_vars

\* the backend after the first n of the executed frames, replayed in order
\* from Backend::new()
RECURSIVE BackendAfter(_, _)
BackendAfter(frames, n) ==
    IF n = 0 THEN Backend_new
    ELSE LET Step(b, cmd) ==
                 LET Done(ex) == [map |-> ex.strings, hmap |-> ex.hashes]
                 IN  Done(Command_execute(cmd, b.map, b.hmap,
                                          CHOOSE o \in OrdersFor(cmd, b.hmap) : TRUE))
         IN  Step(BackendAfter(frames, n - 1), Command_try_from(frames[n]).cmd)

\* the replies executing cmd on backend b can give
RepliesOf(cmd, b) ==
    {Command_execute(cmd, b.map, b.hmap, o).reply : o \in OrdersFor(cmd, b.hmap)}

\* C9: the i-th reply written is the encoded result of executing the i-th
\* decoded frame on the backend the earlier frames left; each executed command
\* has one reply, written before the next frame is decoded, and a frame is
\* handled only when every earlier reply has been written. (Only the last
\* decoded frame can lack a reply: it is being handled, or it parsed to no
\* command and stream_handler returned.)
C9_RepliesInOrder ==
    /\ Len(out) <= Len(execd)
    /\ Len(execd) <= Len(decoded)
    /\ Len(decoded) <= Len(out) + 1
    /\ pc = "handle" => Len(out) = Len(decoded) - 1
    /\ pc = "send" => (Len(execd) = Len(decoded) /\ Len(out) = Len(decoded) - 1)
    /\ pc \in {"next", "done_ok"} => Len(out) = Len(decoded)
    /\ \A i \in 1..Len(execd) :
         /\ execd[i].frame = decoded[i]
         /\ Command_try_from(decoded[i]).k = "Ok"
         /\ execd[i].reply \in RepliesOf(Command_try_from(decoded[i]).cmd,
                                         BackendAfter(decoded, i - 1))
    /\ \A i \in 1..Len(out) : out[i] = encode(execd[i].reply)

\* C9 witness: two commands were decoded and answered, the second reply being
\* the value the first command stored
C9_Witness ==
    /\ Len(out) = 2
    /\ decoded[1] = Cmd2(NameSet, BulkString(KeyK), ValueA)
    /\ decoded[2] = Cmd1(NameGet, BulkString(KeyK))
    /\ out = <<encode(RESP_OK), encode(ValueA)>>

----------------------------------------------------------------------------
(* Claims about command parsing, checked under SpecParse *)

\* the frame is a command name in some spelling followed by arguments of the
\* right shape for that name
RightlyFormed(f) ==
    /\ f.t = "Array"
    /\ Len(f.v) >= 1
    /\ f.v[1].t = "BulkString"
    /\ to_ascii_lowercase(f.v[1].s) \in Names
    /\ Tail(f.v) \in RightArgs(to_ascii_lowercase(f.v[1].s))

LowerCased(f) == RespArray(<<BulkString(to_ascii_lowercase(f.v[1].s))>> \o Tail(f.v))

\* C8: an array whose name is any upper/lower-case spelling of get, set, hget,
\* hset or hgetall, with the right arguments, parses to the command its
\* all-lowercase spelling parses to, and not to Unrecognized.
C8_NameCaseInsensitive ==
    (parsed.k # "NotCalled" /\ RightlyFormed(arg))
        => (parsed = Command_try_from(LowerCased(arg)) /\ parsed.cmd # Unrecognized)

----------------------------------------------------------------------------
(* Claims about command execution, checked under SpecExec *)

\* the positions before i at which a Set on key was executed
SetsBefore(i, key) ==
    {j \in 1..(i - 1) : hist[j].cmd.c = "Set" /\ hist[j].cmd.key = key}

Latest(S) == CHOOSE j \in S : \A x \in S : x <= j

\* C10: every Get replies with the value of the latest earlier Set on its key,
\* or Null when there is none; every Set replies with SimpleString OK.
C10_GetReturnsLatestSet ==
    \A i \in 1..Len(hist) :
        /\ hist[i].cmd.c = "Set" => hist[i].reply = SimpleString(<<"O", "K">>)
        /\ hist[i].cmd.c = "Get" =>
             hist[i].reply = IF SetsBefore(i, hist[i].cmd.key) = {} THEN RespNull
                             ELSE hist[Latest(SetsBefore(i, hist[i].cmd.key))].cmd.value

\* C10 witness: a key set twice and then read gives the second value
C10_Witness ==
    /\ Len(hist) = 3
    /\ hist[1].cmd = Set(KeyK, ValueA)
    /\ hist[2].cmd = Set(KeyK, ValueB)
    /\ hist[3] = [cmd |-> Get(KeyK), reply |-> ValueB]

\* the positions before i at which an HSet on (key, field) was executed
HSetsBefore(i, key, field) ==
    {j \in 1..(i - 1) : /\ hist[j].cmd.c = "HSet"
                        /\ hist[j].cmd.key = key
                        /\ hist[j].cmd.field = field}

\* C11: every HGet replies with the value of the latest earlier HSet on its
\* (key, field), or Null when there is none (no such hash, or a hash without
\* the field); every HSet replies with SimpleString OK and leaves its hash in
\* the backend, holding its field.
C11_HGetReturnsLatestHSet ==
    \A i \in 1..Len(hist) :
        /\ hist[i].cmd.c = "HSet" =>
             /\ hist[i].reply = SimpleString(<<"O", "K">>)
             /\ hist[i].cmd.key \in DOMAIN hmap
             /\ hist[i].cmd.field \in DOMAIN hmap[hist[i].cmd.key]
        /\ hist[i].cmd.c = "HGet" =>
             hist[i].reply =
                 IF HSetsBefore(i, hist[i].cmd.key, hist[i].cmd.field) = {} THEN RespNull
                 ELSE hist[Latest(HSetsBefore(i, hist[i].cmd.key, hist[i].cmd.field))].cmd.value

\* C11 witness: a field of a hash that holds another field too is read back,
\* and a field set on a hash that was absent is there
C11_Witness ==
    /\ Len(hist) = 3
    /\ hist[1].cmd = HSet(KeyK, FieldF, ValueA)
    /\ hist[2].cmd = HSet(KeyK, FieldG, ValueB)
    /\ hist[3] = [cmd |-> HGet(KeyK, FieldF), reply |-> ValueA]

\* C11 second case: a hash that exists without the field reads as Null
C11_WitnessMissingField ==
    /\ Len(hist) = 2
    /\ hist[1].cmd = HSet(KeyK, FieldG, ValueB)
    /\ hist[2] = [cmd |-> HGet(KeyK, FieldF), reply |-> RespNull]

\* the fields of hash key set before position i
FieldsBefore(i, key) ==
    {hist[j].cmd.field : j \in {x \in 1..(i - 1) : hist[x].cmd.c = "HSet" /\ hist[x].cmd.key = key}}

\* the positions 1, 3, 5, ... of a reply: indices 0, 2, 4, ... counted from 0
FieldSlots(v) == {j \in 1..Len(v) : j % 2 = 1}

\* C12: every HGetAll replies with an Array; with no earlier HSet on its key
\* the Array is empty; otherwise it has two elements per distinct field set
\* so far, each field once as a BulkString at an even index (from 0), followed
\* by the value of the latest HSet on that field.
C12_HGetAllListsEveryField ==
    \A i \in 1..Len(hist) :
        hist[i].cmd.c = "HGetAll" =>
            /\ hist[i].reply.t = "Array"
            /\ Len(hist[i].reply.v) = 2 * Cardinality(FieldsBefore(i, hist[i].cmd.key))
            /\ \A f \in FieldsBefore(i, hist[i].cmd.key) :
                 /\ Cardinality({j \in FieldSlots(hist[i].reply.v) :
                                    hist[i].reply.v[j] = BulkString(f)}) = 1
                 /\ \A j \in FieldSlots(hist[i].reply.v) :
                      hist[i].reply.v[j] = BulkString(f) =>
                          hist[i].reply.v[j + 1] =
                              hist[Latest(HSetsBefore(i, hist[i].cmd.key, f))].cmd.value

\* C12 witness: a hash of two fields listed, in an order that is not the
\* sorted one
C12_Witness ==
    /\ Len(hist) = 3
    /\ hist[1].cmd = HSet(KeyK, FieldF, ValueA)
    /\ hist[2].cmd = HSet(KeyK, FieldG, ValueB)
    /\ hist[3] = [cmd |-> HGetAll(KeyK, FALSE),
                  reply |-> RespArray(<<BulkString(FieldG), ValueB, BulkString(FieldF), ValueA>>)]

\* C12 second case: the hash is absent and the reply is the empty Array
C12_WitnessAbsent ==
    /\ Len(hist) = 1
    /\ hist[1] = [cmd |-> HGetAll(KeyK, FALSE), reply |-> RespArray(<<>>)]

\* C13: the reply of every HGetAll executed with sort = true has the field
\* names at indices 0, 2, 4, ... in strictly increasing byte-wise order; and
\* the HGetAll that Command::try_from makes of a wire frame has sort = false.
C13_SortedHGetAll ==
    /\ \A i \in 1..Len(hist) :
         (hist[i].cmd.c = "HGetAll" /\ hist[i].cmd.sort) =>
             \A j \in FieldSlots(hist[i].reply.v) :
                 j + 2 <= Len(hist[i].reply.v) =>
                     StrLess(hist[i].reply.v[j].s, hist[i].reply.v[j + 2].s)
    /\ Command_try_from(Cmd1(NameHGetAll, BulkString(KeyK))) = CmdOk(HGetAll(KeyK, FALSE))

\* C13 witness: three fields set in an order that is not the sorted one, one
\* a prefix of another, then listed sorted
C13_Witness ==
    /\ Len(hist) = 4
    /\ hist[1].cmd = HSet(KeyK, FieldG, ValueB)
    /\ hist[2].cmd = HSet(KeyK, FieldFa, ValueA)
    /\ hist[3].cmd = HSet(KeyK, FieldF, ValueA)
    /\ hist[4] = [cmd |-> HGetAll(KeyK, TRUE),
                  reply |-> RespArray(<<BulkString(FieldF), ValueA, BulkString(FieldFa), ValueA,
                                        BulkString(FieldG), ValueB>>)]

----------------------------------------------------------------------------
(* More claims about the connection driver, checked under SpecConn *)

\* an Array whose first element is a BulkString naming none of the five
\* commands, in any spelling
NamesNoCommand(f) ==
    /\ f.t = "Array"
    /\ Len(f.v) >= 1
    /\ f.v[1].t = "BulkString"
    /\ to_ascii_lowercase(f.v[1].s) \notin Names

\* C14: a decoded Array naming no command parses to Unrecognized whatever
\* follows the name; handling it gives the reply SimpleString OK, leaves both
\* maps of the backend as they were, and the driver goes on to send the reply.
C14_UnknownCommandAnsweredOk ==
    [][(pc = "handle" /\ pc' # "handle" /\ NamesNoCommand(cur))
          => /\ Command_try_from(cur) = CmdOk(Unrecognized)
             /\ resp' = SimpleString(<<"O", "K">>)
             /\ map' = map
             /\ hmap' = hmap
             /\ pc' = "send"
             /\ err' = "None"]_vars

\* C14 witness: after a Set, an unknown name with arguments of other types
\* was answered OK, the stored value is still there and the driver is back
\* at reading
C14_Witness ==
    /\ decoded = <<Cmd2(NameSet, BulkString(KeyK), ValueA),
                   RespArray(<<BulkString(<<"p", "i", "n", "g">>), Integer(12), RespNull>>)>>
    /\ out = <<encode(RESP_OK), encode(RESP_OK)>>
    /\ map = Backend_set(Backend_new.map, KeyK, ValueA)
    /\ pc = "next"

\* the step is the decode half of framed.next(): the driver is at reading with
\* bytes to look at, and it is not the client that acts
DecodeStep ==
    /\ pc = "next"
    /\ readable
    /\ nsent' = nsent
    /\ peer' = peer

\* C15: when decode returns NotComplete before end-of-file was read, the
\* driver writes nothing, does not terminate and goes back to reading; when
\* decode returns any other error the loop ends with that error; and once the
\* loop has ended with an error no command is executed and nothing is written.
C15_DecodeErrorsInDriver ==
    [][/\ (DecodeStep /\ RespFrame_decode(rbuf).k = "NotComplete" /\ ~eof)
            => /\ pc' = "next"
               /\ ~readable'
               /\ err' = "None"
               /\ out' = out
               /\ execd' = execd
       /\ (DecodeStep /\ RespFrame_decode(rbuf).k \notin {"Ok", "NotComplete"})
            => /\ pc' = "done_err"
               /\ err' = RespFrame_decode(rbuf).k
               /\ out' = out
               /\ execd' = execd
       /\ pc = "done_err"
            => /\ pc' = "done_err"
               /\ out' = out
               /\ execd' = execd
               /\ map' = map
               /\ hmap' = hmap]_vars

\* C15 witness: the driver saw half a command, wrote nothing and waits
C15_Witness ==
    /\ pc = "next"
    /\ ~readable
    /\ ~eof
    /\ rbuf = Take(encode(Cmd1(NameGet, BulkString(KeyK))), 6)
    /\ out = <<>>
    /\ err = "None"

\* C15 second case: after one answered command, bytes of an unknown type
\* ended the loop with the decoder's error
C15_WitnessInvalid ==
    /\ pc = "done_err"
    /\ err = "InvalidFrameType"
    /\ Len(out) = 1
    /\ Len(decoded) = 1

----------------------------------------------------------------------------
(* Claims about the Integer codec, checked under SpecInteger *)

Abs(n) == IF n < 0 THEN 0 - n ELSE n

\* the bytes between the sign and the CRLF of an encoded integer
Magnitude(buf) == SubSeq(buf, 3, Len(buf) - CRLF_LEN)

\* C16: for every i64 n, the least and the greatest included, encode(Integer n)
\* is ':', one sign byte ('+' for n >= 0, '-' for n < 0), the decimal digits
\* of |n| and CRLF, and decoding those bytes returns Integer n and empties the
\* buffer.
C16_IntegerSignAndRoundTrip ==
    (Decoded /\ input.f.t = "Integer")
        => /\ Len(dec.before) >= 3 + CRLF_LEN
           /\ dec.before[1] = ":"
           /\ dec.before[2] = (IF input.f.n >= 0 THEN "+" ELSE "-")
           /\ AllDigits(Magnitude(dec.before))
           /\ DecVal(Magnitude(dec.before)) = Abs(input.f.n)
           /\ Drop(dec.before, Len(dec.before) - CRLF_LEN) = CRLF
           /\ dec.k = "Ok"
           /\ dec.f = Integer(input.f.n)
           /\ src = <<>>

\* C16 witness: the least i64 was encoded and decoded back
C16_Witness ==
    /\ Decoded
    /\ input.f = Integer(I64_MIN)
    /\ dec.f = Integer(I64_MIN)

\* C16 further cases: zero, and the greatest i64
C16_WitnessZero == Decoded /\ input.f = Integer(0) /\ dec.before = <<":", "+", "0", CR, LF>>
C16_WitnessMax == Decoded /\ input.f = Integer(I64_MAX) /\ dec.f = Integer(I64_MAX)

----------------------------------------------------------------------------
(* More claims about the codec, checked under SpecCodec *)

\* C17: decode yields NullBulkString on $-1 CRLF, BulkString("") on
\* $0 CRLF CRLF, NullArray on *-1 CRLF and the empty Array on *0 CRLF.
C17_NullAndEmptyDistinct ==
    Decoded =>
        /\ dec.before = <<"$", "-", "1", CR, LF>>
             => (dec.k = "Ok" /\ dec.f = RespNullBulkString)
        /\ dec.before = <<"$", "0", CR, LF, CR, LF>>
             => (dec.k = "Ok" /\ dec.f = BulkString(<<>>))
        /\ dec.before = <<"*", "-", "1", CR, LF>>
             => (dec.k = "Ok" /\ dec.f = RespNullArray)
        /\ dec.before = <<"*", "0", CR, LF>>
             => (dec.k = "Ok" /\ dec.f = RespArray(<<>>))

----------------------------------------------------------------------------
(* More claims about command parsing, checked under SpecParse *)

\* the array is a command named, in lower case, by its first element
NamesCommand(f) ==
    /\ f.t = "Array"
    /\ Len(f.v) >= 1
    /\ f.v[1].t = "BulkString"
    /\ f.v[1].s \in Names

\* the length of the whole array each command requires
Arity(name) ==
    CASE name = NameGet -> 2
      [] name = NameSet -> 3
      [] name = NameHGet -> 3
      [] name = NameHSet -> 4
      [] name = NameHGetAll -> 2

\* the variant of Command each name stands for
VariantOf(name) ==
    CASE name = NameGet -> "Get"
      [] name = NameSet -> "Set"
      [] name = NameHGet -> "HGet"
      [] name = NameHSet -> "HSet"
      [] name = NameHGetAll -> "HGetAll"

\* C18: an array named get, set, hget, hset or hgetall whose length is not
\* 2, 3, 3, 4, 2 respectively fails to parse with InvalidArgument naming the
\* command; with that length and arguments of the right types it parses to
\* the command of that name.
C18_WrongArityIsInvalidArgument ==
    (parsed.k # "NotCalled" /\ NamesCommand(arg)) =>
        /\ Len(arg.v) # Arity(arg.v[1].s)
             => (parsed.k = "InvalidArgument" /\ parsed.about = arg.v[1].s /\ parsed.cmd = NoCmd)
        /\ (Len(arg.v) = Arity(arg.v[1].s) /\ Tail(arg.v) \in RightArgs(arg.v[1].s))
             => (parsed.k = "Ok" /\ parsed.cmd.c = VariantOf(arg.v[1].s))

\* C18 witness: an hset with one argument too many was rejected
C18_Witness ==
    /\ arg = RespArray(<<BulkString(NameHSet), BulkString(KeyK), BulkString(KeyK),
                         Integer(12), Integer(12)>>)
    /\ parsed.k = "InvalidArgument"
    /\ parsed.about = NameHSet

\* C18 further cases: a get without its key rejected, an hset of the required
\* length parsed
C18_WitnessShort ==
    arg = RespArray(<<BulkString(NameGet)>>) /\ parsed.k = "InvalidArgument"
C18_WitnessParsed ==
    /\ arg = RespArray(<<BulkString(NameHSet), BulkString(KeyK), BulkString(FieldF), ValueA>>)
    /\ parsed = CmdOk(HSet(KeyK, FieldF, ValueA))

\* C19: Command::try_from on a frame that is no Array, on the empty Array, or
\* on an Array whose first element is no BulkString, returns InvalidCommand
\* and no command, not even Unrecognized.
C19_NotACommandIsInvalidCommand ==
    (/\ parsed.k # "NotCalled"
     /\ \/ arg.t # "Array"
        \/ Len(arg.v) = 0
        \/ arg.v[1].t # "BulkString")
        => (parsed.k = "InvalidCommand" /\ parsed.cmd = NoCmd)

\* C19 witness: an Array whose name is a SimpleString was rejected
C19_Witness ==
    /\ arg = RespArray(<<SimpleString(NameGet), BulkString(KeyK)>>)
    /\ parsed.k = "InvalidCommand"

\* C19 further cases: the empty Array, and a frame that is no Array
C19_WitnessEmpty == arg = RespArray(<<>>) /\ parsed.k = "InvalidCommand"
C19_WitnessNoArray ==
    arg = RespSet(<<BulkString(NameGet), BulkString(KeyK)>>) /\ parsed.k = "InvalidCommand"

\* the number of leading arguments each command converts to a string
KeySlots(name) ==
    CASE name = NameGet -> 1
      [] name = NameSet -> 1
      [] name = NameHGet -> 2
      [] name = NameHSet -> 2
      [] name = NameHGetAll -> 1

\* a recognized command of the right arity whose key and field arguments are
\* all BulkStrings, one of them at least not valid UTF-8
BadUtf8Key(f) ==
    /\ NamesCommand(f)
    /\ Len(f.v) = Arity(f.v[1].s)
    /\ \A i \in 1..KeySlots(f.v[1].s) : f.v[i + 1].t = "BulkString"
    /\ \E i \in 1..KeySlots(f.v[1].s) : ~String_from_utf8(f.v[i + 1].s).ok

RightArity(f) == NamesCommand(f) /\ Len(f.v) = Arity(f.v[1].s)

\* the first key or field argument that is no BulkString of valid UTF-8, or
\* 0 when every one of them is
FirstBadKey(f) ==
    LET bad == {i \in 1..KeySlots(f.v[1].s) :
                    f.v[i + 1].t # "BulkString" \/ ~String_from_utf8(f.v[i + 1].s).ok}
    IN  IF bad = {} THEN 0 ELSE CHOOSE i \in bad : \A j \in bad : i <= j

C21_WitnessValue ==
    /\ arg = RespArray(<<BulkString(NameSet), BulkString(KeyK), RespMap(<<>>)>>)
    /\ parsed.k = "Ok"
C21_WitnessKeyFirst ==
    /\ arg = RespArray(<<BulkString(NameHGet), BulkString(<<BadByte>>), Integer(12)>>)
    /\ parsed.k = "Utf8Error"

\* the value a stored-and-read-back pair carries
StoredValue(store) == store.v[Len(store.v)]

\* C22: a set or hset received on the wire, all its bytes in the read buffer,
\* is decoded and parsed whatever variant its value is, null forms and nested
\* containers included, and the following get or hget of the same key is
\* answered with that same frame.
C22_AnyValueStoredAndReturned ==
    sent # <<>> =>
        /\ LET Yielded(r) == /\ r.k = "Some"
                              /\ r.f = sent[1]
                              /\ Command_try_from(r.f).k = "Ok"
           IN  Yielded(RespFrameCodec_decode(encode(sent[1]) \o encode(sent[2])))
        /\ Len(decoded) >= 1 => decoded[1] = sent[1]
        /\ Len(out) = 2 => out[2] = encode(StoredValue(sent[1]))

\* a stored value was read back
C22_Witness ==
    /\ sent # <<>>
    /\ StoredValue(sent[1]) = RespArray(<<RespArray(<<RespSet(<<RespNull>>)>>)>>)
    /\ Len(out) = 2
    /\ out[2] = encode(StoredValue(sent[1]))

\* the positions of the log at which a command of the given variant returned
ExecsOf(variant) == {j \in 1..Len(log) : log[j].cmd.c = variant}

\* C23: the reply of an HGetAll that ran while other connections stored into
\* the same hash never lists a field twice, and every field it lists is
\* paired with a value some HSet stored under that field before the reply
\* was made.
C23_HGetAllNoDuplicateNoTorn ==
    \A j \in ExecsOf("HGetAll") :
        LET v == log[j].reply.v
            n == Len(v) \div 2
        IN  /\ Len(v) = 2 * n
            /\ \A a, b \in 1..n : a # b => v[2 * a - 1] # v[2 * b - 1]
            /\ \A a \in 1..n :
                 \E s \in ExecsOf("HSet") :
                    /\ s < j
                    /\ log[s].cmd.key = log[j].cmd.key
                    /\ BulkString(log[s].cmd.field) = v[2 * a - 1]
                    /\ log[s].cmd.value = v[2 * a]

\* an HSet of another connection that stored into the hash of the HGetAll
\* at log position j while that HGetAll was under way
StoredDuring(s, j) ==
    /\ s < j
    /\ log[s].cmd.c = "HSet"
    /\ log[s].c # log[j].c
    /\ log[s].cmd.key = log[j].cmd.key
    /\ log[j].since < s

\* C23 witness: an HSet of another connection stored a field while an HGetAll
\* of the same hash was under way, and the reply has that field
C23_Witness ==
    \E j \in ExecsOf("HGetAll") : \E s \in 1..Len(log) :
        /\ StoredDuring(s, j)
        /\ Len(log[j].reply.v) = 4
        /\ \E a \in 1..2 : /\ log[j].reply.v[2 * a - 1] = BulkString(log[s].cmd.field)
                           /\ log[j].reply.v[2 * a] = log[s].cmd.value

\* C23 further case: such an HSet stored a field and the reply has it not
C23_WitnessMissed ==
    \E j \in ExecsOf("HGetAll") : \E s \in 1..Len(log) :
        /\ StoredDuring(s, j)
        /\ \A a \in 1..(Len(log[j].reply.v) \div 2) :
              log[j].reply.v[2 * a - 1] # BulkString(log[s].cmd.field)

\* the positions of the log before j at which a Set on the key returned
SetsOn(key, j) == {s \in 1..(j - 1) : log[s].cmd.c = "Set" /\ log[s].cmd.key = key}

\* the Sets on the key that had begun and not returned when the command at
\* log position j returned: those that returned later, and those still under way
SetsUnderWay(key, j) ==
    {log[u].c : u \in {x \in (j + 1)..Len(log) : /\ log[x].cmd.c = "Set"
                                                   /\ log[x].cmd.key = key
                                                   /\ log[x].since < j}}
    \cup {c \in Conns : /\ task[c].pc # "idle"
                         /\ task[c].cmd.c = "Set"
                         /\ task[c].cmd.key = key
                         /\ task[c].since < j}

\* every Get returned the whole value of a Set on its key that returned before it
GetsReturnSetValues ==
    \A j \in ExecsOf("Get") :
        log[j].reply # RespNull =>
            \E s \in SetsOn(log[j].cmd.key, j) : log[j].reply = log[s].cmd.value

\* the Sets that returned all took effect: each key set is stored, with the
\* value of one of the Sets on it
SetsTakeEffect ==
    \A s \in ExecsOf("Set") :
        /\ log[s].cmd.key \in DOMAIN map
        /\ \E u \in ExecsOf("Set") : /\ log[u].cmd.key = log[s].cmd.key
                                     /\ map[log[s].cmd.key] = log[u].cmd.value

C24_WitnessNullDuringSet ==
    \E j \in ExecsOf("Get") :
        /\ log[j].reply = RespNull
        /\ SetsUnderWay(log[j].cmd.key, j) # {}
C24_WitnessDistinctKeys ==
    \E s, u \in ExecsOf("Set") :
        /\ log[s].c # log[u].c
        /\ log[s].cmd.key # log[u].cmd.key
        /\ log[u].since < s /\ s < u
        /\ DOMAIN map = {log[s].cmd.key, log[u].cmd.key}

\* the command at log position s stored under the entry the command at log
\* position j reads, on another connection, and had returned when that
\* command began
StoredBefore(s, j) ==
    /\ log[s].c # log[j].c
    /\ s <= log[j].since
    /\ log[s].cmd.key = log[j].cmd.key
    /\ \/ log[s].cmd.c = "Set" /\ log[j].cmd.c = "Get"
       \/ log[s].cmd.c = "HSet" /\ log[j].cmd.c = "HGetAll"
       \/ log[s].cmd.c = "HSet" /\ log[j].cmd.c = "HGet" /\ log[s].cmd.field = log[j].cmd.field

\* the stores into the same entry as the one at s, from s on and before j
NotOlder(s, j) ==
    {u \in s..(j - 1) : /\ log[u].cmd.c = log[s].cmd.c
                        /\ log[u].cmd.key = log[s].cmd.key
                        /\ log[s].cmd.c = "HSet" => log[u].cmd.field = log[s].cmd.field}

\* C25: a Set or HSet that has returned on one connection is observed by
\* every Get, HGet and HGetAll another connection begins afterwards: the
\* reply has the value stored, or the value of a later store into the same
\* entry. The handle each request clones is a handle of the same maps.
C25_StoresSeenByOtherConnections ==
    \A j \in 1..Len(log) : \A s \in 1..(j - 1) :
        StoredBefore(s, j) =>
            \E u \in NotOlder(s, j) :
                IF log[j].cmd.c = "HGetAll"
                THEN \E a \in 1..(Len(log[j].reply.v) \div 2) :
                        /\ log[j].reply.v[2 * a - 1] = BulkString(log[u].cmd.field)
                        /\ log[j].reply.v[2 * a] = log[u].cmd.value
                ELSE log[j].reply = log[u].cmd.value

\* C25 witness: a Get returned what another connection had set before
C25_Witness ==
    \E j \in ExecsOf("Get") : \E s \in 1..(j - 1) :
        StoredBefore(s, j) /\ log[j].reply = log[s].cmd.value

\* C25 further cases: an HGet and an HGetAll returned what another connection
\* had stored before
C25_WitnessHGet ==
    \E j \in ExecsOf("HGet") : \E s \in 1..(j - 1) :
        StoredBefore(s, j) /\ log[j].reply = log[s].cmd.value
C25_WitnessHGetAll ==
    \E j \in ExecsOf("HGetAll") : \E s \in 1..(j - 1) :
        /\ StoredBefore(s, j)
        /\ log[j].reply = RespArray(<<BulkString(log[s].cmd.field), log[s].cmd.value>>)

\* the frame size the spec has the driver cap frames at: 512 MiB
FrameCeiling == 512 * 1024 * 1024

\* the length the head of the buffer announces for a bulk string, 0 if it
\* announces none
Announced(buf) ==
    LET Len0(p) == IF p.k = "Ok" THEN p.len ELSE 0
    IN  IF buf # <<>> /\ buf[1] = "$" THEN Len0(parse_length(buf, <<"$">>)) ELSE 0

\* C26: the driver caps the frame size: the receive buffer stays within the
\* ceiling, and once the buffer announces a frame larger than the ceiling
\* the driver does not go on waiting for its bytes but ends with an error.
C26_FrameSizeCapped ==
    /\ Len(rbuf) <= FrameCeiling
    /\ (Announced(rbuf) > FrameCeiling /\ ~readable) => pc = "done_err"

\* stream_handler has returned
Returned == pc \in {"done_ok", "done_err"}

\* C27: the connection loop terminates. Once the peer has closed its side the
\* handler returns, with Ok if the bytes received hold no unfinished frame;
\* a decode error, a command error and an I/O error are each returned as
\* they occur (a panic of the decoder ends the task without a return value);
\* and once the handler has ended no command is executed and nothing is sent.
C27_LoopTerminates ==
    /\ [](pc = "done_ok" => (eof /\ rbuf = <<>> /\ err = "None"))
    /\ [](pc = "done_err" => err # "None")
    /\ [][Returned => (/\ pc' = pc /\ err' = err /\ out' = out /\ execd' = execd
                       /\ decoded' = decoded /\ map' = map /\ hmap' = hmap)]_vars
    /\ [][(RequestHandler /\ Command_try_from(cur).k # "Ok")
             => (pc' = "done_err" /\ err' = Command_try_from(cur).k /\ execd' = execd)]_vars
    /\ [][(FramedDecode /\ RespFrameCodec_decode(rbuf).k \notin {"Some", "None", "Panic"})
             => (pc' = "done_err" /\ err' = RespFrameCodec_decode(rbuf).k)]_vars
    /\ [][IoError => (pc' = "done_err" /\ err' = "Io")]_vars
    /\ (peer # "open") ~> Returned
    /\ (peer = "closed" /\ wire = <<>> /\ rbuf = <<>> /\ pc = "next") ~> (pc = "done_ok")

\* C27 witness: the handler returned Ok after it had answered a command and
\* the peer had closed
C27_Witness == pc = "done_ok" /\ peer = "closed" /\ Len(out) >= 1

\* C27 further cases: the handler returned a command error, a decode error,
\* an I/O error
C27_WitnessCommandError == pc = "done_err" /\ err = "InvalidArgument"
C27_WitnessDecodeError == pc = "done_err" /\ err = "InvalidFrameType"
C27_WitnessIoError == pc = "done_err" /\ err = "Io" /\ Len(execd) > Len(out)

\* the null-form probe of the '$' or '*' arm on the buffer, and the
\* length-prefixed decoder of that arm
NullProbe(buf) ==
    IF buf[1] = "$" THEN RespNullBulkString_decode(buf) ELSE RespNullArray_decode(buf)
LengthPrefixed(buf) ==
    IF buf[1] = "$" THEN BulkString_decode(buf) ELSE RespArray_decode(buf)

C28_WitnessArray ==
    /\ dec.before = <<"*", "1", CR, LF, "_", CR, LF>>
    /\ dec.k = "Ok"
    /\ dec.f = RespArray(<<RespNull>>)
C28_WitnessShort ==
    /\ dec.before = <<"$", "0", CR>>
    /\ NullProbe(dec.before).k = "NotComplete"
    /\ dec.k = "NotComplete"

\* the first bytes RespFrame::decode knows
TypeBytes == {"+", "-", ":", "$", "*", "_", "#", ",", "%", "~"}

\* C29: RespFrame::decode returns NotComplete on the empty buffer, and
\* InvalidFrameType, no frame and not NotComplete, on a buffer whose first
\* byte is no type byte, which it leaves as it is.
C29_EmptyWaitsUnknownIsInvalid ==
    dec.k # "NotCalled" =>
        /\ dec.before = <<>> => (dec.k = "NotComplete" /\ dec.f = NoFrame)
        /\ (dec.before # <<>> /\ dec.before[1] \notin TypeBytes)
              => (dec.k = "InvalidFrameType" /\ dec.f = NoFrame /\ dec.rest = dec.before)

\* C29 witness: a buffer that starts with a byte that is no type byte and
\* holds a whole line was decoded
C29_Witness == dec.before = <<"!", CR, LF>> /\ dec.k = "InvalidFrameType"

\* C29 further cases: the empty buffer, and one unknown byte with no line end
C29_WitnessEmpty == input # NoInput /\ dec.before = <<>> /\ dec.k = "NotComplete"
C29_WitnessOneByte == dec.before = <<"a">> /\ dec.k = "InvalidFrameType"

\* the entries of the Map that a wire form written from es holds
EntriesOf(es) == [i \in 1..Len(es) |-> <<es[i][1], es[i][2].f>>]

\* %2 +hello $5 world +foo $3 bar, CRLF-delimited
HelloFooWire ==
    <<"%", "2", CR, LF, "+", "h", "e", "l", "l", "o", CR, LF,
      "$", "5", CR, LF, "w", "o", "r", "l", "d", CR, LF,
      "+", "f", "o", "o", CR, LF, "$", "3", CR, LF, "b", "a", "r", CR, LF>>

\* C30: decoding a Map wire form of L entries yields the Map of those L
\* entries in the order of the wire and leaves nothing in the buffer, and
\* encoding that Map gives the bytes that were decoded.
C30_MapKeepsWireOrder ==
    \A es \in MapEntrySeqs :
        (dec.k # "NotCalled" /\ dec.before = MapWire(es)) =>
            /\ dec.k = "Ok"
            /\ dec.f = RespMap(EntriesOf(es))
            /\ dec.rest = <<>>
            /\ encode(dec.f) = dec.before

\* C30 witness: %2 +hello $5 world +foo $3 bar was decoded to the Map of
\* hello then foo
C30_Witness ==
    /\ dec.before = HelloFooWire
    /\ dec.k = "Ok"
    /\ dec.f.t = "Map"
    /\ Len(dec.f.m) = 2
    /\ dec.f.m[1][1] = <<"h", "e", "l", "l", "o">>
    /\ dec.f.m[2][1] = <<"f", "o", "o">>

\* C30 further case: the same two entries in the other order stay in that order
C30_WitnessFooFirst ==
    /\ dec.k = "Ok"
    /\ dec.f.t = "Map"
    /\ Len(dec.f.m) = 2
    /\ dec.f.m[1][1] = <<"f", "o", "o">>
    /\ dec.f.m[2][1] = <<"h", "e", "l", "l", "o">>

\* C31: a complete header line whose payload is no valid number makes decode
\* return a parse error, not NotComplete, whatever follows the line.
C31_BadHeaderIsParseError ==
    \A h \in BadHeaderLines : \A tail \in HeaderTails :
        (dec.k # "NotCalled" /\ dec.before = h \o tail) => dec.k = "ParseIntError"

\* C31, the part that holds: the parse error is returned once the buffer is at
\* least as long as the null form the '$' and '*' arms probe for
C31_BadHeaderIsParseErrorFromFiveBytes ==
    \A h \in BadHeaderLines : \A tail \in HeaderTails :
        (dec.k # "NotCalled" /\ dec.before = h \o tail
            /\ (h[1] \in {"$", "*"} => Len(h \o tail) >= 5))
           => dec.k = "ParseIntError"

\* C31 cases: an Integer line and a Set length line that are no numbers were
\* decoded to the parse error; a 4-byte bulk header with a length that is no
\* number was decoded to NotComplete
C31_WitnessInteger == dec.before = <<":", "a", CR, LF>> /\ dec.k = "ParseIntError"
C31_WitnessLength == dec.before = <<"~", "-", "1", CR, LF>> /\ dec.k = "ParseIntError"
C31_WitnessShortBulk == dec.before = <<"$", "a", CR, LF>> /\ dec.k = "NotComplete"

\* C32: decode of a whole Array, Set or Map with a child position that starts
\* with no type byte returns InvalidFrameType, not NotComplete, at any depth.
C32_UnknownChildIsInvalid ==
    (dec.k # "NotCalled" /\ dec.before \in BadChildWires) => dec.k = "InvalidFrameType"

\* C32 cases: an Array and a Map whose only child position starts with '!'
\* were decoded to NotComplete
C32_WitnessArray ==
    dec.before = <<"*", "1", CR, LF, "!", "x", CR, LF>> /\ dec.k = "NotComplete"
C32_WitnessMap ==
    /\ dec.before = <<"%", "1", CR, LF, "+", "a", CR, LF, "!", "x", CR, LF>>
    /\ dec.k = "NotComplete"

\* C32: none of these containers is ever decoded to InvalidFrameType
C32_UnknownChildAlwaysWaits ==
    (dec.k # "NotCalled" /\ dec.before \in BadChildWires) => dec.k = "NotComplete"

\* C33: decode of a bulk wire form with declared length L returns the L bytes
\* after the header, CR and LF among them, and consumes header + L + 2 bytes
\* when the two bytes after the payload are CR LF; when they are not, no
\* BulkString is returned.
C33_BulkTakesLengthAndTerminator ==
    \A payload \in BulkPayloads : \A end \in BulkEnds : \A tail \in BulkTails :
        (dec.k # "NotCalled" /\ dec.before = BulkWire(payload, end, tail)) =>
            IF end = <<CR, LF>>
            THEN dec.k = "Ok" /\ dec.f = BulkString(payload) /\ dec.rest = tail
            ELSE dec.k # "Ok"

\* C33, the part that holds: the payload is the L bytes after the header and
\* header + L + 2 bytes are consumed, whatever the two bytes after the payload
C33_BulkTakesLength ==
    \A payload \in BulkPayloads : \A end \in BulkEnds : \A tail \in BulkTails :
        (dec.k # "NotCalled" /\ dec.before = BulkWire(payload, end, tail)) =>
            dec.k = "Ok" /\ dec.f = BulkString(payload) /\ dec.rest = tail

\* C33 cases: a payload that holds CR LF was decoded whole; a payload followed
\* by the bytes x y was decoded to a BulkString that took them as its terminator
C33_WitnessCrlfInside ==
    /\ dec.before = BulkWire(<<"a", CR, LF>>, <<CR, LF>>, <<"+">>)
    /\ dec.k = "Ok"
    /\ dec.f = BulkString(<<"a", CR, LF>>)
C33_WitnessNoTerminator ==
    /\ dec.before = BulkWire(<<"a">>, <<"x", "y">>, <<>>)
    /\ dec.k = "Ok"
    /\ dec.f = BulkString(<<"a">>)
    /\ dec.rest = <<>>

\* the client has written only frames that are well-formed commands
OnlyCommandsSent ==
    \A i \in 1..Len(sent) : sent[i] # NoFrame /\ Command_try_from(sent[i]).k = "Ok"

\* the driver has read every byte the client wrote and waits for more
AllConsumed == pc = "next" /\ ~readable /\ ~eof /\ wire = <<>>

\* C34: whatever the chunks the bytes of the commands f1..fn arrive in, the
\* driver yields f1..fn in that order: what it has yielded is always a prefix
\* of what was sent, it never ends on a decode failure, and once it has read
\* every byte it has yielded every frame and its buffer is empty.
C34_ChunkingIndependent ==
    OnlyCommandsSent =>
        /\ Len(decoded) <= Len(sent)
        /\ \A i \in 1..Len(decoded) : decoded[i] = sent[i]
        /\ pc = "done_err" => err \in {"Io", "BytesRemaining"}
        /\ AllConsumed => (decoded = sent /\ rbuf = <<>>)

\* C34, without the chunks on which the length calculation panics: the frames
\* come out in order and complete
C34_ChunkingIndependentUnlessPanic ==
    (OnlyCommandsSent /\ err # "Panic") =>
        /\ Len(decoded) <= Len(sent)
        /\ \A i \in 1..Len(decoded) : decoded[i] = sent[i]
        /\ pc = "done_err" => err \in {"Io", "BytesRemaining"}
        /\ AllConsumed => (decoded = sent /\ rbuf = <<>>)

\* C34 cases: two commands that arrived in chunks that cut the first in two
\* came out in order; a command cut inside a bulk child ended the driver
C34_WitnessChunked ==
    /\ OnlyCommandsSent
    /\ Len(sent) = 2
    /\ decoded = sent
    /\ AllConsumed
C34_WitnessPanic ==
    /\ OnlyCommandsSent
    /\ Len(sent) = 1
    /\ pc = "done_err"
    /\ err = "Panic"
    /\ decoded = <<>>

\* the read buffer starts with the whole encoding of f, a well-formed command
HeadCommand(f) ==
    /\ Command_try_from(f).k = "Ok"
    /\ Len(rbuf) >= Len(encode(f))
    /\ Take(rbuf, Len(encode(f))) = encode(f)

\* the driver is at framed.next() with a whole well-formed command at the head
\* of its buffer
CommandWaiting == pc = "next" /\ \E f \in LiveFrames : HeadCommand(f)

\* C35: a whole well-formed command at the head of the buffer is answered:
\* with n replies written so far, the driver eventually writes one more,
\* unless the peer closes or the connection fails.
C35_CompleteCommandAnswered ==
    \A n \in 0..MaxSends :
        (CommandWaiting /\ Len(out) = n) ~> (Len(out) > n \/ peer # "open")

\* a command whose last argument is the empty Array is all the buffer holds
EndsInEmptyArray ==
    \E f \in LiveFrames :
        /\ rbuf = encode(f)
        /\ f.t = "Array"
        /\ f.v # <<>>
        /\ f.v[Len(f.v)] = RespArray(<<>>)

\* C35, but for a command that ends the buffer with the 4 bytes of an empty Array
C35_CompleteCommandAnsweredUnlessEmptyArray ==
    \A n \in 0..MaxSends :
        (CommandWaiting /\ ~EndsInEmptyArray /\ Len(out) = n) ~> (Len(out) > n \/ peer # "open")

\* C35 cases: two commands that arrived in one read were both answered with
\* the peer still open and nothing left to read; a set of the empty Array was
\* consumed in part and the driver waits for more bytes
C35_WitnessPipelined ==
    /\ Len(sent) = 2
    /\ Len(out) = 2
    /\ peer = "open"
    /\ AllConsumed
    /\ rbuf = <<>>
C35_WitnessStuck ==
    /\ sent = <<Cmd2(NameSet, BulkString(KeyK), RespArray(<<>>))>>
    /\ AllConsumed
    /\ out = <<>>
    /\ rbuf # <<>>

\* the command of the step that was just executed
LastCmd == hist'[Len(hist')].cmd

\* the replies of the reads of the other namespace are the same before and
\* after the step
SameReplies(variants) ==
    \A q \in {c \in Commands : c.c \in variants} : \A order \in OrdersFor(q, hmap) :
        /\ order \in OrdersFor(q, hmap')
        /\ Command_execute(q, map', hmap', order).reply
              = Command_execute(q, map, hmap, order).reply

\* C36: Get, HGet, HGetAll and Unrecognized leave both maps as they are; Set
\* changes the strings entry of its key and nothing else; HSet changes its
\* field of its hash and nothing else; so a Set changes the reply of no HGet
\* or HGetAll and an HSet changes the reply of no Get.
C36_FrameConditions ==
    [][hist' # hist =>
         /\ LastCmd.c \in {"Get", "HGet", "HGetAll", "Unrecognized"}
               => (map' = map /\ hmap' = hmap)
         /\ LastCmd.c = "Set" =>
               /\ hmap' = hmap
               /\ DOMAIN map' = DOMAIN map \cup {LastCmd.key}
               /\ map'[LastCmd.key] = LastCmd.value
               /\ \A k \in DOMAIN map \ {LastCmd.key} : map'[k] = map[k]
               /\ SameReplies({"HGet", "HGetAll"})
         /\ LastCmd.c = "HSet" =>
               /\ map' = map
               /\ DOMAIN hmap' = DOMAIN hmap \cup {LastCmd.key}
               /\ \A k \in DOMAIN hmap \ {LastCmd.key} : hmap'[k] = hmap[k]
               /\ hmap'[LastCmd.key][LastCmd.field] = LastCmd.value
               /\ DOMAIN hmap'[LastCmd.key]
                     = (IF LastCmd.key \in DOMAIN hmap THEN DOMAIN hmap[LastCmd.key] ELSE {})
                       \cup {LastCmd.field}
               /\ LastCmd.key \in DOMAIN hmap =>
                     \A g \in DOMAIN hmap[LastCmd.key] \ {LastCmd.field} :
                         hmap'[LastCmd.key][g] = hmap[LastCmd.key][g]
               /\ SameReplies({"Get"})]_vars

\* C36 witness: a Set on a key that has a hash was executed, and the HGet on
\* that key after it replied with what the hash held before
C36_Witness ==
    /\ Len(hist) = 3
    /\ hist[1].cmd = HSet(KeyK, FieldF, ValueA)
    /\ hist[2].cmd = Set(KeyK, ValueB)
    /\ hist[3] = [cmd |-> HGet(KeyK, FieldF), reply |-> ValueA]
    /\ map[KeyK] = ValueB

\* C36 further cases: an HSet on a key that has a string and another field,
\* and a read after two stores
C36_WitnessHSet ==
    /\ Len(hist) = 4
    /\ hist[1].cmd = Set(KeyK, ValueA)
    /\ hist[2].cmd = HSet(KeyK, FieldG, ValueB)
    /\ hist[3].cmd = HSet(KeyK, FieldF, ValueB)
    /\ hist[4] = [cmd |-> Get(KeyK), reply |-> ValueA]
    /\ hmap[KeyK][FieldG] = ValueB
C36_WitnessRead ==
    /\ Len(hist) = 3
    /\ hist[1].cmd = Set(KeyJ, ValueA)
    /\ hist[2].cmd = HSet(KeyK, FieldF, ValueA)
    /\ hist[3].cmd.c = "HGetAll"
    /\ KeyJ \in DOMAIN map
    /\ KeyK \in DOMAIN hmap

====
